---- MODULE Spec2Model ----
(***************************************************************************)
(* A model of the momentum trading engine: the risk manager's exposure     *)
(* counters, the engine's position table with its scan and monitor         *)
(* handlers, and the order executor's pricing, precision and journals.     *)
(*                                                                         *)
(* Numbers.  The source computes in floating point; the model computes in  *)
(* exact arithmetic on integers:                                           *)
(*   - a price is a whole number of ticks; one quote unit is PriceUnit     *)
(*     ticks, and every fill price is a whole number of quote units, so    *)
(*     the factors 0.98, 1.01 and 1 + profit_target are exact;             *)
(*   - a ratio of two prices and a percentage are counted in 1/RatioScale  *)
(*     (a percentage p is the integer p * 100);                            *)
(*   - a size is a whole number of 1/SizeUnit of the base currency;        *)
(*   - risk percentages and the sector cap are counted in tenths.          *)
(* The engine's comparisons are made on the very values it stores, so they *)
(* come out the same in exact arithmetic.  _adjust_precision is different: *)
(* its result is decided by how float operations round, and its section    *)
(* models floats as binary floating point.                                 *)
(***************************************************************************)
EXTENDS Integers, Sequences, FiniteSets, TLC

\* The trailing stop can be raised MaxRaises times per position before the
\* model stops following it (each raise multiplies the stop by 1.01).
MaxRaises == 3
\* The model's clock stops after MaxClock steps of more than four hours each.
MaxClock == 1

PriceUnit == 100 ^ (MaxRaises - 1)
RatioScale == 10 ^ 4
SizeUnit == 10 ^ 3
None == 0 - 1
NoSector == "None"

Symbols == {"AAA/USDT", "BBB/USDT"}
Sectors == {"defi", NoSector}
MarketStates == {"bull", "bear"}

\* Prices the ticker can show, as multiples of 1/RatioScale of a quote unit:
\* below the initial stop, flat, between the trailing trigger and the first
\* take-profit level, and the three take-profit levels of a 5% target.
PriceLevels == {9700, 10000, 10350, 10400, 10500, 10600}
Prices == {(PriceUnit \div RatioScale) * k : k \in PriceLevels}

\* Configurations: percentages in tenths (max_risk_per_trade 20 = 2.0%),
\* max_sector_allocation in tenths of the total (5 = 0.5).
Configs ==
    { [max_risk_per_trade |-> 20, max_total_risk |-> 50,
       max_sector_allocation |-> 10, max_new_positions |-> 2,
       account_balance |-> 1000],
      [max_risk_per_trade |-> 20, max_total_risk |-> 60,
       max_sector_allocation |-> 5, max_new_positions |-> 1,
       account_balance |-> 1000] }

VARIABLES
    config,             \* the loaded configuration
    symbols,            \* the tradable universe (get_tradable_symbols)
    exchange,           \* what the default exchange's connector offers
    ticker,             \* the prices get_current_price can answer
    clock,              \* datetime.now(), in steps of more than four hours
    positions,          \* MomentumStrategy.positions: symbol -> record
    current_risk,       \* RiskManager.current_risk
    sector_allocation,  \* RiskManager.sector_allocation: sector -> allocation
    current_positions,  \* RiskManager.current_positions
    blacklist,          \* RiskManager.blacklist
    last,               \* what the latest handler observed and requested
    pricing,            \* a call of _calculate_buy_price / _sell_price
    sizing,             \* a call of _adjust_precision
    entry_log_file,     \* the content of entry_orders.json
    exit_log_file,      \* the content of exit_orders.json
    journal,            \* (history) the records appended to each journal
    market_data,        \* MarketDataProvider.market_data: cache key -> bars
    last_update         \* MarketDataProvider.last_update: cache key -> time

engine_vars == <<config, symbols, exchange, ticker, clock, positions,
                 current_risk, sector_allocation, current_positions,
                 blacklist, last>>
executor_vars == <<pricing, sizing, entry_log_file, exit_log_file, journal>>
provider_vars == <<market_data, last_update>>
vars == <<engine_vars, executor_vars, provider_vars>>

Max(a, b) == IF a >= b THEN a ELSE b
Min(a, b) == IF a <= b THEN a ELSE b

\* a / b counted in 1/RatioScale (exact: b is a multiple of RatioScale ticks
\* and a a multiple of b / RatioScale)
Ratio(a, b) == a \div (b \div RatioScale)
\* x * n / 100 for a price x that is a multiple of 100 ticks
PriceTimes(x, n) == (x \div 100) * n
\* x * n / 10 for a size
SizeTimes(x, n) == (x * n) \div 10

Get(f, k, d) == IF k \in DOMAIN f THEN f[k] ELSE d
Put(f, k, v) == [x \in DOMAIN f \cup {k} |-> IF x = k THEN v ELSE f[x]]

(***************************************************************************)
(* Signals, as generate_signals returns them: one signal per symbol, every *)
(* signal of a scan carrying the scan's market state, rsi <= 75, and the   *)
(* list sorted by score (in tenths) in descending order.                   *)
(***************************************************************************)
Scores == {615, 750}

SignalsOf(universe, state) ==
    [symbol : universe, rsi : {55}, entry_price : {PriceUnit},
     profit_target : {5}, sector : Sectors, score : Scores,
     market_state : {state}]

SignalLists(universe, state) ==
    {<<>>}
    \cup {<<a>> : a \in SignalsOf(universe, state)}
    \cup {<<a, b>> : a, b \in SignalsOf(universe, state)}

SortedDistinct(sigs) ==
    \A i, j \in 1..Len(sigs) :
        i < j => /\ sigs[i].symbol # sigs[j].symbol
                 /\ sigs[i].score >= sigs[j].score

\* What the order executor answers to execute_entry / execute_exit.
\* previous_high: what the data provider answers to get_previous_high, which
\* is asked only after a fill.
EntryResults ==
    { r \in [success : BOOLEAN, avg_price : {PriceUnit},
             previous_high : {None, PriceTimes(PriceUnit, 110)}] :
          ~r.success => r.previous_high = None }

(***************************************************************************)
(* RiskManager                                                             *)
(***************************************************************************)
\* calculate_atr raising, as an answer
Raises == 0 - 2

\* The check stopping the scan when it has no ATR to go by.
check_market_risk_strict(btc_atr) ==
    IF btc_atr = Raises \/ btc_atr = None
    THEN FALSE
    ELSE IF btc_atr > 7 THEN FALSE ELSE TRUE

check_market_risk(btc_atr) ==
    IF btc_atr = Raises
    THEN TRUE
    ELSE IF btc_atr # None /\ btc_atr > 7 THEN FALSE ELSE TRUE

filter_signals(signals, bl, cur) ==
    SelectSeq(signals,
              LAMBDA signal :
                  /\ signal.symbol \notin bl
                  /\ ~(signal.rsi # None /\ signal.rsi > 75)
                  /\ signal.symbol \notin cur)

rank_signals(signals) == signals

\* can_open_position without its last test, the one on the market state.
can_open_position_any_state(cfg, risk, alloc, signal) ==
    IF risk + cfg.max_risk_per_trade > cfg.max_total_risk
    THEN FALSE
    ELSE IF /\ signal.sector # NoSector
            /\ (Get(alloc, signal.sector, 0) + cfg.max_risk_per_trade) * 10
                   > cfg.max_sector_allocation * cfg.max_total_risk
    THEN FALSE
    ELSE TRUE

\* can_open_position without its first test, the one on the total risk.
can_open_position_no_total(cfg, risk, alloc, signal) ==
    IF /\ signal.sector # NoSector
       /\ (Get(alloc, signal.sector, 0) + cfg.max_risk_per_trade) * 10
              > cfg.max_sector_allocation * cfg.max_total_risk
    THEN FALSE
    ELSE IF /\ signal.market_state \in {"bear", "strong_bear"}
            /\ signal.score < 700
    THEN FALSE
    ELSE TRUE

can_open_position(cfg, risk, alloc, signal) ==
    IF risk + cfg.max_risk_per_trade > cfg.max_total_risk
    THEN FALSE
    ELSE IF /\ signal.sector # NoSector
            /\ (Get(alloc, signal.sector, 0) + cfg.max_risk_per_trade) * 10
                   > cfg.max_sector_allocation * cfg.max_total_risk
    THEN FALSE
    ELSE IF /\ signal.market_state \in {"bear", "strong_bear"}
            /\ signal.score < 700
    THEN FALSE
    ELSE TRUE

\* The size calculate_position_size returns, in 1/SizeUnit.  Money is counted
\* in 1/1000 of a quote unit: account_balance * (max_risk_per_trade / 100).
position_size_of(cfg, signal) ==
    LET risk_amount == cfg.account_balance * cfg.max_risk_per_trade
        adjusted_risk == IF signal.score >= 600
                         THEN risk_amount
                         ELSE (risk_amount * signal.score) \div 600
        by_state == CASE signal.market_state = "strong_bull"
                            -> (adjusted_risk * 12) \div 10
                      [] signal.market_state = "bear"
                            -> (adjusted_risk * 7) \div 10
                      [] signal.market_state = "strong_bear"
                            -> (adjusted_risk * 5) \div 10
                      [] OTHER -> adjusted_risk
        position_value == by_state * 50
    IN  (position_value * (SizeUnit \div 1000))
            \div (signal.entry_price \div PriceUnit)

\* The counters after calculate_position_size.
risk_after_sizing(cfg, risk) == risk + cfg.max_risk_per_trade

alloc_after_sizing(cfg, alloc, signal) ==
    IF signal.sector # NoSector
    THEN Put(alloc, signal.sector,
             Get(alloc, signal.sector, 0) + cfg.max_risk_per_trade)
    ELSE alloc

(***************************************************************************)
(* OrderExecutor.set_stop_loss, as the engine sees it: the type of the     *)
(* result (the engine passes sizes that need no precision adjustment).     *)
(***************************************************************************)
set_stop_loss(ex, symbol, stop_price, size) ==
    IF ex.create_stop_loss_order
    THEN [symbol |-> symbol, success |-> TRUE, type |-> "stop_loss",
          stop_price |-> stop_price, size |-> size]
    ELSE [symbol |-> symbol, success |-> FALSE, type |-> "soft_stop_loss",
          stop_price |-> stop_price, size |-> size]

(***************************************************************************)
(* MomentumStrategy.execute_entry                                          *)
(***************************************************************************)
new_position(signal, first_entry, order_result, now) ==
    [entry_time |-> now,
     entry_price |-> order_result.avg_price,
     position_size |-> first_entry,
     original_size |-> first_entry,   \* (history) the size entered
     stop_loss |-> PriceTimes(order_result.avg_price, 98),
     target_profit |-> PriceTimes(order_result.avg_price,
                                  100 + signal.profit_target),
     stage |-> 1,
     sector |-> signal.sector,
     take_profit_1 |-> FALSE,
     take_profit_2 |-> FALSE,
     take_profit_3 |-> FALSE]

\* st: [positions, current_risk, sector_allocation, entered, stops]
\* After a fill the record is stored; setup_second_stage_entry raises when
\* previous_high is None (previous_high * 1.005), and then set_stop_loss is
\* not reached: scan_market catches the exception.
execute_entry(cfg, ex, st, signal, order_result, now) ==
    LET position_size == position_size_of(cfg, signal)
        first_entry == position_size \div 2
        sized == [st EXCEPT
                    !.current_risk = risk_after_sizing(cfg, @),
                    !.sector_allocation = alloc_after_sizing(cfg, @, signal)]
        position == new_position(signal, first_entry, order_result, now)
        stored == [sized EXCEPT
                     !.positions = Put(@, signal.symbol, position),
                     !.entered = Append(@, signal.symbol)]
    IN  IF ~order_result.success
        THEN sized
        ELSE IF order_result.previous_high = None
        THEN stored
        ELSE [stored EXCEPT
                !.stops = Append(@, set_stop_loss(ex, signal.symbol,
                                                  position.stop_loss,
                                                  first_entry))]

\* The loop of scan_market over ranked_signals[:max_new_positions].
RECURSIVE execute_signals(_, _, _, _, _, _)
execute_signals(cfg, ex, st, signals, results, now) ==
    IF signals = <<>>
    THEN st
    ELSE LET signal == Head(signals)
             next == IF can_open_position(cfg, st.current_risk,
                                          st.sector_allocation, signal)
                     THEN execute_entry(cfg, ex, st, signal, Head(results),
                                        now)
                     ELSE st
         IN  execute_signals(cfg, ex, next, Tail(signals), Tail(results),
                             now)

(***************************************************************************)
(* MomentumStrategy.monitor_positions, for one position of the pass.       *)
(* tp_result / exit_result: whether the executor's execute_exit succeeds   *)
(* for the take-profit order and for the time-stop order.  The result      *)
(* tells whether the record is still in the table, the record, and the     *)
(* exit orders and stop updates the engine asked the executor for.         *)
(***************************************************************************)
profit_pct(current_price, position) ==
    Ratio(current_price, position.entry_price) - RatioScale

target_pct(position) ==
    Ratio(position.target_profit, position.entry_price) - RatioScale

\* current_price / entry_price > 1.03
trailing_due(current_price, position) ==
    Ratio(current_price, position.entry_price) > 10300

new_stop_loss(position) ==
    Max(position.entry_price, PriceTimes(position.stop_loss, 101))

\* A trailing stop that multiplies by 0.99 for 1.01 and stores the result
\* without comparing it with the stop already reached.
trail_stop_lowering(position, current_price) ==
    IF trailing_due(current_price, position)
    THEN [position EXCEPT !.stop_loss = PriceTimes(position.stop_loss, 99)]
    ELSE position

trail_stop(position, current_price) ==
    IF /\ trailing_due(current_price, position)
       /\ new_stop_loss(position) > position.stop_loss
    THEN [position EXCEPT !.stop_loss = new_stop_loss(position)]
    ELSE position

\* The take-profit chain without the test of the first stage's flag.
take_profit_stage_unflagged(position, profit, target) ==
    IF profit * 10 >= target * 8 THEN 1
    ELSE IF profit >= target /\ ~position.take_profit_2 THEN 2
    ELSE IF profit * 10 >= target * 12 /\ ~position.take_profit_3 THEN 3
    ELSE 0

\* The take-profit stage chosen by the highest level the profit reached.
take_profit_stage_by_level(position, profit, target) ==
    IF profit * 10 >= target * 12 /\ ~position.take_profit_3 THEN 3
    ELSE IF profit >= target /\ ~position.take_profit_2 THEN 2
    ELSE IF profit * 10 >= target * 8 /\ ~position.take_profit_1 THEN 1
    ELSE 0

\* The branch of the take-profit if / elif chain that is taken (0: none).
take_profit_stage(position, profit, target) ==
    IF profit * 10 >= target * 8 /\ ~position.take_profit_1 THEN 1
    ELSE IF profit >= target /\ ~position.take_profit_2 THEN 2
    ELSE IF profit * 10 >= target * 12 /\ ~position.take_profit_3 THEN 3
    ELSE 0

take_profit_size(position, stage) ==
    CASE stage = 1 -> SizeTimes(position.position_size, 3)
      [] stage = 2 -> SizeTimes(position.position_size, 4)
      [] stage = 3 -> SizeTimes(position.position_size, 3)
      [] OTHER -> 0

\* execute_take_profit, then the stage's flag.
take_profit(position, stage, tp_result) ==
    LET size == take_profit_size(position, stage)
        sold == IF tp_result
                THEN [position EXCEPT !.position_size = @ - size]
                ELSE position
    IN  CASE stage = 1 -> [sold EXCEPT !.take_profit_1 = TRUE]
          [] stage = 2 -> [sold EXCEPT !.take_profit_2 = TRUE]
          [] stage = 3 -> [sold EXCEPT !.take_profit_3 = TRUE]
          [] OTHER -> position

\* A time stop that only closes positions at a loss.
time_stop_at_loss(position, profit, now) ==
    now - position.entry_time > 0 /\ profit < 0

\* position_duration.total_seconds() / 3600 > 4 and profit_pct < 1
time_stop_due(position, profit, now) ==
    now - position.entry_time > 0 /\ profit < 100

monitor_position(ex, symbol, position, current_price, tp_result, exit_result, now) ==
    IF current_price = None
    THEN \* current_price / entry_price raises: the symbol is skipped
         [open |-> TRUE, position |-> position, exits |-> <<>>,
          stops |-> <<>>]
    ELSE
    LET trailed == trail_stop(position, current_price)
        profit == profit_pct(current_price, position)
        stage == take_profit_stage(trailed, profit, target_pct(trailed))
        taken == take_profit(trailed, stage, tp_result)
        tp_exits == IF stage = 0 THEN <<>>
                    ELSE << [reason |-> "take_profit", stage |-> stage,
                             size |-> take_profit_size(trailed, stage),
                             success |-> tp_result] >>
        timed == time_stop_due(taken, profit, now)
        ts_exits == IF timed
                    THEN << [reason |-> "exit_all", stage |-> 0,
                             size |-> taken.position_size,
                             success |-> exit_result] >>
                    ELSE <<>>
    IN  [open |-> stage # 3 /\ ~timed,
         position |-> taken,
         exits |-> tp_exits \o ts_exits,
         stops |-> IF trailed.stop_loss # position.stop_loss
                   THEN << set_stop_loss(ex, symbol, trailed.stop_loss,
                                         position.position_size) >>
                   ELSE <<>>]

\* The model follows a stop only while stop_loss * 1.01 is a whole number
\* of ticks.
CanFollow(position, current_price) ==
    \/ current_price = None
    \/ ~trailing_due(current_price, position)
    \/ position.stop_loss % 100 = 0

(***************************************************************************)
(* The engine                                                              *)
(***************************************************************************)
\* last: the handler that ran, the symbols a scan entered, the stop orders
\* it asked for, what it was answered for the ATR of BTC and whether it went
\* on to generate signals, and per symbol what a monitor pass saw and asked
\* for.
NoEvent(op) ==
    [op |-> op, entered |-> <<>>, stops |-> <<>>, seen |-> <<>>,
     btc_atr |-> None, generated |-> FALSE]

\* The data provider's cache while it is not followed.
ProviderIdle ==
    /\ market_data = <<>>
    /\ last_update = <<>>

\* The executor's side of the state while only the engine is followed.
ExecutorIdle ==
    /\ pricing = [called |-> "none"]
    /\ sizing = [called |-> "none"]
    /\ entry_log_file = <<"absent">>
    /\ exit_log_file = <<"absent">>
    /\ journal = [entry |-> <<>>, exit |-> <<>>]

EngineStart ==
    /\ clock = 0
    /\ positions = <<>>
    /\ current_risk = 0
    /\ sector_allocation = <<>>
    /\ current_positions = {}
    /\ blacklist = {}
    /\ last = NoEvent("init")

Init ==
    /\ config \in Configs
    /\ symbols = {"AAA/USDT"}
    /\ exchange \in [create_stop_loss_order : BOOLEAN]
    /\ ticker = Prices
    /\ EngineStart
    /\ ExecutorIdle
    /\ ProviderIdle

SubSeqTo(s, n) == SubSeq(s, 1, Min(n, Len(s)))

\* What calculate_atr("BTC/USDT") answers, in percent.
BtcAtrs == {None, Raises, 7, 8}

\* scan_market, the provider answering one of `answers` for the ATR of BTC
scan_market_with(answers) ==
    \E state \in MarketStates, btc_atr \in answers :
        /\ IF ~check_market_risk(btc_atr)
           THEN /\ last' = [NoEvent("scan") EXCEPT !.btc_atr = btc_atr]
                /\ UNCHANGED <<positions, current_risk, sector_allocation>>
           ELSE \E signals \in SignalLists(symbols, state) :
                  /\ SortedDistinct(signals)
                  /\ IF signals = <<>>
                     THEN /\ last' = [NoEvent("scan") EXCEPT
                                        !.btc_atr = btc_atr,
                                        !.generated = TRUE]
                          /\ UNCHANGED <<positions, current_risk,
                                         sector_allocation>>
                     ELSE LET filtered == filter_signals(signals, blacklist,
                                                         current_positions)
                              ranked == rank_signals(filtered)
                              chosen == SubSeqTo(ranked,
                                                 config.max_new_positions)
                          IN  \E results \in
                                     [1..Len(chosen) -> EntryResults] :
                                LET st == execute_signals(
                                            config, exchange,
                                            [positions |-> positions,
                                             current_risk |-> current_risk,
                                             sector_allocation |->
                                                 sector_allocation,
                                             entered |-> <<>>,
                                             stops |-> <<>>],
                                            chosen, results, clock)
                                IN  /\ positions' = st.positions
                                    /\ current_risk' = st.current_risk
                                    /\ sector_allocation' =
                                           st.sector_allocation
                                    /\ last' = [NoEvent("scan") EXCEPT
                                                  !.entered = st.entered,
                                                  !.stops = st.stops,
                                                  !.btc_atr = btc_atr,
                                                  !.generated = TRUE]
        /\ UNCHANGED <<config, symbols, exchange, ticker, clock,
                       current_positions, blacklist, executor_vars,
                       provider_vars>>

\* The engine is followed with one answer for each outcome of the check.
scan_market == scan_market_with({None, 8})

\* The loop with an unavailable price ending the pass.
RECURSIVE monitor_each_uncontained(_, _, _, _, _, _, _)
monitor_each_uncontained(ex, todo, price, tp_result, exit_result, now, done) ==
    IF todo = {} \/ price[CHOOSE s \in todo : TRUE] = None
    THEN done
    ELSE LET symbol == CHOOSE s \in todo : TRUE
             r == monitor_position(ex, symbol, done.positions[symbol],
                                   price[symbol], tp_result[symbol],
                                   exit_result[symbol], now)
         IN  monitor_each_uncontained(
                 ex, todo \ {symbol}, price, tp_result, exit_result, now,
                 [positions |->
                      [s \in {x \in DOMAIN done.positions :
                                 x # symbol \/ r.open} |->
                          IF s = symbol THEN r.position
                          ELSE done.positions[s]],
                  seen |-> Put(done.seen, symbol,
                               [price |-> price[symbol], exits |-> r.exits,
                                stops |-> r.stops])])

\* The loop of monitor_positions over the symbols `todo` of the table; each
\* symbol is handled inside its own try, so `done` always moves on.
RECURSIVE monitor_each(_, _, _, _, _, _, _)
monitor_each(ex, todo, price, tp_result, exit_result, now, done) ==
    IF todo = {}
    THEN done
    ELSE LET symbol == CHOOSE s \in todo : TRUE
             r == monitor_position(ex, symbol, done.positions[symbol],
                                   price[symbol], tp_result[symbol],
                                   exit_result[symbol], now)
         IN  monitor_each(
                 ex, todo \ {symbol}, price, tp_result, exit_result, now,
                 [positions |->
                      [s \in {x \in DOMAIN done.positions :
                                 x # symbol \/ r.open} |->
                          IF s = symbol THEN r.position
                          ELSE done.positions[s]],
                  seen |-> Put(done.seen, symbol,
                               [price |-> price[symbol], exits |-> r.exits,
                                stops |-> r.stops])])

monitor_positions ==
    /\ DOMAIN positions # {}
    /\ \E price \in [DOMAIN positions -> ticker \cup {None}],
          tp_result, exit_result \in [DOMAIN positions -> BOOLEAN] :
         /\ \A s \in DOMAIN positions : CanFollow(positions[s], price[s])
         /\ LET done == monitor_each(exchange, DOMAIN positions, price,
                                     tp_result, exit_result, clock,
                                     [positions |-> positions,
                                      seen |-> <<>>])
            IN  /\ positions' = done.positions
                /\ last' = [NoEvent("monitor") EXCEPT !.seen = done.seen]
    /\ UNCHANGED <<config, symbols, exchange, ticker, clock, current_risk,
                   sector_allocation, current_positions, blacklist,
                   executor_vars, provider_vars>>

\* More than four hours pass.
time_passes ==
    /\ clock < MaxClock
    /\ clock' = clock + 1
    /\ last' = NoEvent("clock")
    /\ UNCHANGED <<config, symbols, exchange, ticker, positions,
                   current_risk, sector_allocation, current_positions,
                   blacklist, executor_vars, provider_vars>>

Next == scan_market \/ monitor_positions \/ time_passes

Spec == Init /\ [][Next]_vars

(***************************************************************************)
(* OrderExecutor: the limit price of an order.  An order book side is a    *)
(* sequence of <<price, amount>> levels, best level first; a precision is  *)
(* either a number of decimal digits (an int) or a step.                   *)
(***************************************************************************)
\* Book and target prices are 1..MaxBookPrice quote units.
MaxBookPrice == 3

BookPrices == {PriceUnit * k : k \in 1..MaxBookPrice}

Level(p) == <<p, SizeUnit>>

AskBooks ==
    {<<>>}
    \cup {<<Level(p)>> : p \in BookPrices}
    \cup {<<Level(p), Level(q)>> : p, q \in BookPrices}

BidBooks == AskBooks

\* asks ascend and bids descend from the best level
Ascending(book) ==
    \A i, j \in 1..Len(book) : i < j => book[i][1] < book[j][1]

Descending(book) ==
    \A i, j \in 1..Len(book) : i < j => book[i][1] > book[j][1]

\* price precisions: two decimal digits, or the step 0.05
PricePrecisions ==
    { [kind |-> "digits", value |-> 2],
      [kind |-> "step", value |-> PriceUnit \div 20] }

\* 1 / (10 ** price_precision) for an int, float(price_precision) otherwise
tick_size(price_precision) ==
    IF price_precision.kind = "digits"
    THEN PriceUnit \div (10 ^ price_precision.value)
    ELSE price_precision.value

\* The buy price with the tick subtracted where the source adds it.
calculate_buy_price_minus(target_price, orderbook, market) ==
    LET asks == orderbook.asks
    IN  IF asks = <<>>
        THEN target_price
        ELSE IF target_price >= asks[1][1]
        THEN asks[1][1]
        ELSE target_price - tick_size(market.precision.price)

calculate_buy_price(target_price, orderbook, market) ==
    LET asks == orderbook.asks
    IN  IF asks = <<>>
        THEN target_price
        ELSE LET lowest_ask == asks[1][1]
             IN  IF target_price >= lowest_ask
                 THEN lowest_ask
                 ELSE target_price + tick_size(market.precision.price)

calculate_sell_price(target_price, orderbook, market) ==
    LET bids == orderbook.bids
    IN  IF bids = <<>>
        THEN target_price
        ELSE LET highest_bid == bids[1][1]
             IN  IF target_price <= highest_bid
                 THEN highest_bid
                 ELSE target_price - tick_size(market.precision.price)

\* Everything but the pricing call stands still.
PricingOnly ==
    /\ config = CHOOSE c \in Configs : TRUE
    /\ symbols = {"AAA/USDT"}
    /\ exchange = [create_stop_loss_order |-> FALSE]
    /\ ticker = {}
    /\ ProviderIdle
    /\ EngineStart
    /\ sizing = [called |-> "none"]
    /\ entry_log_file = <<"absent">>
    /\ exit_log_file = <<"absent">>
    /\ journal = [entry |-> <<>>, exit |-> <<>>]

InitPricing ==
    /\ PricingOnly
    /\ \E target_price \in BookPrices, asks \in AskBooks, bids \in BidBooks,
          price_precision \in PricePrecisions :
         /\ Ascending(asks)
         /\ Descending(bids)
         /\ pricing = [called |-> "price",
                       target_price |-> target_price,
                       orderbook |-> [asks |-> asks, bids |-> bids],
                       market |-> [precision |-> [price |-> price_precision]],
                       buy_price |-> None,
                       sell_price |-> None]

price_buy ==
    /\ pricing.called = "price"
    /\ pricing.buy_price = None
    /\ pricing' = [pricing EXCEPT
                     !.buy_price = calculate_buy_price(pricing.target_price,
                                                       pricing.orderbook,
                                                       pricing.market)]
    /\ UNCHANGED <<engine_vars, provider_vars, sizing, entry_log_file, exit_log_file,
                   journal>>

price_sell ==
    /\ pricing.called = "price"
    /\ pricing.sell_price = None
    /\ pricing' = [pricing EXCEPT
                     !.sell_price = calculate_sell_price(pricing.target_price,
                                                         pricing.orderbook,
                                                         pricing.market)]
    /\ UNCHANGED <<engine_vars, provider_vars, sizing, entry_log_file, exit_log_file,
                   journal>>

SpecPricing == InitPricing /\ [][price_buy \/ price_sell]_vars

(***************************************************************************)
(* OrderExecutor: the size of an order.  _adjust_precision multiplies,     *)
(* divides and floors Python floats, and its result depends on how those   *)
(* operations round.  A float is modelled as binary floating point,        *)
(* rounded to nearest, ties to even, with FloatBits bits of significand    *)
(* (the source's floats have 53); a value is stored as the integer count   *)
(* of its multiples of 2^-FracBits, FloatOne standing for 1.0.             *)
(***************************************************************************)
FloatBits == 6
\* Sizes handed to _adjust_precision are floats between 0 and MaxAmount.
MaxAmount == 4

FracBits == FloatBits + 3
FloatOne == 2 ^ FracBits

\* the spacing of the floats around num / den (counted in 2^-FracBits)
RECURSIVE Ulp(_, _, _)
Ulp(num, den, u) ==
    IF (2 ^ FloatBits) * u * den <= num THEN Ulp(num, den, 2 * u) ELSE u

\* the float nearest to num / den
Fl(num, den) ==
    LET d == den * Ulp(num, den, 1)
        q == num \div d
        r == num % d
        up == 2 * r > d \/ (2 * r = d /\ q % 2 = 1)
    IN  (IF up THEN q + 1 ELSE q) * Ulp(num, den, 1)

\* math.floor
Floor(x) == x \div FloatOne

Floats == {n \in 0..(MaxAmount * FloatOne) : Fl(n, 1) = n}

\* amount precisions: 0, 1 or 2 decimal digits, or a step given as the
\* decimal string num / den
AmountPrecisions ==
    {[kind |-> "digits", value |-> p] : p \in 0..2}
    \cup {[kind |-> "step", value |-> v] : v \in {<<1, 10>>, <<1, 2>>, <<1, 1>>}}

\* float(precision)
float(precision) == Fl(precision.value[1] * FloatOne, precision.value[2])

adjust_precision(amount, precision) ==
    IF precision.kind = "digits"
    THEN LET factor == 10 ^ precision.value
         IN  Fl(Floor(Fl(amount * factor, 1)) * FloatOne, factor)
    ELSE LET step == float(precision)
         IN  Fl(Floor(Fl(amount * FloatOne, step)) * step, 1)

\* Everything but the sizing call stands still.
SizingOnly ==
    /\ config = CHOOSE c \in Configs : TRUE
    /\ symbols = {"AAA/USDT"}
    /\ exchange = [create_stop_loss_order |-> FALSE]
    /\ ticker = {}
    /\ ProviderIdle
    /\ EngineStart
    /\ pricing = [called |-> "none"]
    /\ entry_log_file = <<"absent">>
    /\ exit_log_file = <<"absent">>
    /\ journal = [entry |-> <<>>, exit |-> <<>>]

InitSizing ==
    /\ SizingOnly
    /\ \E amount \in Floats, precision \in AmountPrecisions :
         sizing = [called |-> "adjust", amount |-> amount,
                   precision |-> precision, adjusted |-> None]

adjust_size ==
    /\ sizing.called = "adjust"
    /\ sizing.adjusted = None
    /\ sizing' = [sizing EXCEPT
                    !.adjusted = adjust_precision(sizing.amount,
                                                  sizing.precision)]
    /\ UNCHANGED <<engine_vars, provider_vars, pricing, entry_log_file, exit_log_file,
                   journal>>

SpecSizing == InitSizing /\ [][adjust_size]_vars

(***************************************************************************)
(* OrderExecutor: the journals entry_orders.json and exit_orders.json.     *)
(* A file is <<"absent">>, <<"malformed">> or <<"json", text>>, where the  *)
(* text of an array of objects is the sequence of the objects' texts and   *)
(* the text of an object the sequence of its <<key, value>> members in     *)
(* the order the dict was built.  A record in memory is a dict: a function *)
(* of its keys.                                                            *)
(***************************************************************************)
\* The executor fills at most MaxFills orders.
MaxFills == 3

default_exchange == "binance"
NoFilter == "None"

EntryKeys == <<"timestamp", "symbol", "exchange_id", "order_id", "size",
               "avg_price", "stage", "is_iceberg", "cost", "sub_orders">>
SubOrderKeys == <<"order_id", "size", "avg_price", "stage", "timestamp">>
ExitKeys == <<"timestamp", "symbol", "exchange_id", "order_id", "size",
              "avg_price", "reason", "revenue", "entry_order_id",
              "entry_price", "profit_percentage", "profit_amount">>

\* size * price, a quote amount in ticks (prices here are multiples of
\* SizeUnit ticks)
Amount(size, price) == size * (price \div SizeUnit)

Members(record, keys) ==
    LET present == SelectSeq(keys, LAMBDA k : k \in DOMAIN record)
    IN  [i \in 1..Len(present) |-> <<present[i], record[present[i]]>>]

Object(members) ==
    [k \in {members[i][1] : i \in 1..Len(members)} |->
        members[CHOOSE i \in 1..Len(members) : members[i][1] = k][2]]

\* json.dump of a list of records
json_dump(logs, keys) ==
    [i \in 1..Len(logs) |->
        LET text == Members(logs[i], keys)
        IN  [j \in 1..Len(text) |->
                IF text[j][1] = "sub_orders"
                THEN <<"sub_orders",
                       [n \in 1..Len(text[j][2]) |->
                           Members(text[j][2][n], SubOrderKeys)]>>
                ELSE text[j]]]

\* json.load of an array
json_load(text) ==
    [i \in 1..Len(text) |->
        LET record == Object(text[i])
        IN  [k \in DOMAIN record |->
                IF k = "sub_orders"
                THEN [n \in 1..Len(record[k]) |-> Object(record[k][n])]
                ELSE record[k]]]

\* existing_logs, were the whole records of a torn file kept.
existing_logs_salvaging(file) ==
    IF file[1] = "absent" THEN <<>> ELSE json_load(file[2])

\* existing_logs: an absent file and one that does not parse give []
existing_logs(file) == IF file[1] = "json" THEN json_load(file[2]) ELSE <<>>

\* the log_entry dict of _log_entry_order
entry_log_record(order_result) ==
    LET log_entry ==
            [timestamp |-> order_result.timestamp,
             symbol |-> order_result.symbol,
             exchange_id |-> Get(order_result, "exchange_id",
                                 default_exchange),
             order_id |-> Get(order_result, "order_id",
                              IF "orders" \in DOMAIN order_result
                              THEN "multiple_orders" ELSE "unknown"),
             size |-> order_result.size,
             avg_price |-> order_result.avg_price,
             stage |-> order_result.stage,
             is_iceberg |-> Get(order_result, "is_iceberg", FALSE),
             cost |-> Amount(order_result.size, order_result.avg_price)]
    IN  IF "orders" \in DOMAIN order_result
        THEN Put(log_entry, "sub_orders",
                 [n \in 1..Len(order_result.orders) |->
                     [order_id |-> order_result.orders[n].order_id,
                      size |-> order_result.orders[n].size,
                      avg_price |-> order_result.orders[n].avg_price,
                      stage |-> order_result.orders[n].stage,
                      timestamp |-> order_result.orders[n].timestamp]])
        ELSE log_entry

\* _log_entry_order with the existing records left out of what is written.
log_entry_order_alone(file, order_result) ==
    <<"json", json_dump(<<entry_log_record(order_result)>>, EntryKeys)>>

\* _log_entry_order: the file afterwards
log_entry_order(file, order_result) ==
    <<"json", json_dump(Append(existing_logs(file),
                               entry_log_record(order_result)),
                        EntryKeys)>>

\* get_entry_orders(symbol, exchange_id), without a time range
get_entry_orders(file, symbol, exchange_id) ==
    IF file[1] # "json"
    THEN <<>>
    ELSE SelectSeq(json_load(file[2]),
                   LAMBDA log :
                       /\ symbol # NoFilter => log.symbol = symbol
                       /\ exchange_id # NoFilter =>
                              log.exchange_id = exchange_id)

\* sorted(entry_orders, key = timestamp, reverse = True)[0]: the sort is
\* stable, so of the entries with the greatest timestamp the first one
latest_entry(entry_orders) ==
    LET i == CHOOSE i \in 1..Len(entry_orders) :
                 /\ \A j \in 1..Len(entry_orders) :
                        entry_orders[j].timestamp <= entry_orders[i].timestamp
                 /\ \A j \in 1..(i - 1) :
                        entry_orders[j].timestamp < entry_orders[i].timestamp
    IN  entry_orders[i]

\* the log_entry dict of _log_exit_order
exit_log_record(entry_file, order_result, exchange_id) ==
    LET log_entry ==
            [timestamp |-> order_result.timestamp,
             symbol |-> order_result.symbol,
             exchange_id |-> exchange_id,
             order_id |-> order_result.order_id,
             size |-> order_result.size,
             avg_price |-> order_result.avg_price,
             reason |-> order_result.reason,
             revenue |-> Amount(order_result.size, order_result.avg_price)]
        entry_orders == get_entry_orders(entry_file, order_result.symbol,
                                         exchange_id)
    IN  IF entry_orders = <<>>
        THEN log_entry
        ELSE LET entry_price == latest_entry(entry_orders).avg_price
                 exit_price == order_result.avg_price
             IN  [k \in DOMAIN log_entry
                        \cup {"entry_order_id", "entry_price",
                              "profit_percentage", "profit_amount"} |->
                     CASE k = "entry_order_id"
                              -> latest_entry(entry_orders).order_id
                       [] k = "entry_price" -> entry_price
                       [] k = "profit_percentage"
                              -> Ratio(exit_price - entry_price, entry_price)
                       [] k = "profit_amount"
                              -> Amount(order_result.size,
                                        exit_price - entry_price)
                       [] OTHER -> log_entry[k]]

\* _log_exit_order: the exit file afterwards
log_exit_order(exit_file, entry_file, order_result, exchange_id) ==
    <<"json", json_dump(Append(existing_logs(exit_file),
                               exit_log_record(entry_file, order_result,
                                               exchange_id)),
                        ExitKeys)>>

\* datetime.now() of the executor: one instant per fill
Now == Len(journal.entry) + Len(journal.exit) + 1

FillPrices == {PriceUnit, 2 * PriceUnit}
OrderIds == {"o1", "o2"}

\* What _execute_single_entry returns for a fill.
SingleEntries ==
    [success : {TRUE}, order_id : OrderIds, symbol : Symbols,
     size : {SizeUnit}, avg_price : FillPrices, stage : {"first_stage"},
     timestamp : {Now}]

\* What _execute_iceberg_entry returns for two filled batches.
IcebergEntries ==
    { [success |-> TRUE, symbol |-> symbol, size |-> 2 * SizeUnit,
       avg_price |-> avg_price, stage |-> "first_stage", timestamp |-> Now,
       orders |-> [n \in 1..2 |->
                     [success |-> TRUE, order_id |-> "o1", symbol |-> symbol,
                      size |-> SizeUnit, avg_price |-> avg_price,
                      stage |-> IF n = 1 THEN "first_stage_iceberg_1"
                                ELSE "first_stage_iceberg_2",
                      timestamp |-> Now]],
       is_iceberg |-> TRUE] :
      symbol \in Symbols, avg_price \in FillPrices }

\* What execute_exit builds for a fill of one of `sizes`.
ExitFillsOf(sizes) ==
    [success : {TRUE}, order_id : {"x1"}, symbol : Symbols,
     size : sizes, avg_price : FillPrices, reason : {"take_profit"},
     timestamp : {Now}]

\* The fills that sell a single entry whole.
ExitFills == ExitFillsOf({SizeUnit})

\* Everything but the journals stands still.
JournalsOnly ==
    /\ config = CHOOSE c \in Configs : TRUE
    /\ symbols = Symbols
    /\ exchange = [create_stop_loss_order |-> FALSE]
    /\ ticker = {}
    /\ ProviderIdle
    /\ EngineStart
    /\ pricing = [called |-> "none"]
    /\ sizing = [called |-> "none"]

\* The journals start absent or as the empty array.
InitJournals ==
    /\ JournalsOnly
    /\ entry_log_file \in {<<"absent">>, <<"json", <<>> >>}
    /\ exit_log_file \in {<<"absent">>, <<"json", <<>> >>}
    /\ journal = [entry |-> <<>>, exit |-> <<>>]

\* OrderExecutor.execute_entry, from the fill on: the result gets its
\* exchange_id and is journalled.
entry_fill ==
    /\ Now <= MaxFills
    /\ \E order_result \in SingleEntries \cup IcebergEntries :
         LET result == Put(order_result, "exchange_id", default_exchange)
         IN  /\ entry_log_file' = log_entry_order(entry_log_file, result)
             /\ journal' = [journal EXCEPT
                              !.entry = Append(@, entry_log_record(result))]
    /\ UNCHANGED <<engine_vars, provider_vars, pricing, sizing,
                   exit_log_file>>

\* OrderExecutor.execute_exit, from the fill on, for one of `fills`.
exit_fill_of(fills) ==
    /\ Now <= MaxFills
    /\ \E order_result \in fills :
         /\ exit_log_file' = log_exit_order(exit_log_file, entry_log_file,
                                            order_result, default_exchange)
         /\ journal' = [journal EXCEPT
                          !.exit = Append(@, exit_log_record(
                                                entry_log_file, order_result,
                                                default_exchange))]
    /\ UNCHANGED <<engine_vars, provider_vars, pricing, sizing,
                   entry_log_file>>

exit_fill == exit_fill_of(ExitFills)

SpecJournals == InitJournals /\ [][entry_fill \/ exit_fill]_vars

\* get_exit_orders(symbol, exchange_id), without a time range
get_exit_orders(file, symbol, exchange_id) ==
    IF file[1] # "json"
    THEN <<>>
    ELSE SelectSeq(json_load(file[2]),
                   LAMBDA log :
                       /\ symbol # NoFilter => log.symbol = symbol
                       /\ exchange_id # NoFilter =>
                              log.exchange_id = exchange_id)

\* _calculate_trading_stats: stats["active_positions"]
active_positions(entry_orders, exit_orders) ==
    LET exited_order_ids ==
            {exit_orders[i].entry_order_id :
                i \in {n \in 1..Len(exit_orders) :
                          "entry_order_id" \in DOMAIN exit_orders[n]}}
    IN  SelectSeq(entry_orders,
                  LAMBDA entry_order :
                      LET order_id == Get(entry_order, "order_id", "")
                      IN  order_id # "" /\ order_id \notin exited_order_ids)

\* The journals with exits of 30% of an entry, as a first take-profit sells,
\* next to exits of the whole.
SpecStats ==
    InitJournals
      /\ [][entry_fill
              \/ exit_fill_of(ExitFillsOf({SizeTimes(SizeUnit, 3),
                                           SizeUnit}))]_vars

(***************************************************************************)
(* MarketDataProvider.get_klines and its cache.  A bar is identified by    *)
(* its timestamp; the adapter answers at most `limit` bars, or raises.     *)
(* The clock of this part counts seconds, as time.time() does.             *)
(***************************************************************************)
MaxTime == 2

data_refresh_interval == 2
max_retries == 3
Bars == {1, 2}

\* What fetch_ohlcv(symbol, timeframe, limit=limit) can answer: at most
\* `limit` bars in the order of their timestamps.
Ohlcv(limit) ==
    {ohlcv \in UNION {[1..n -> Bars] : n \in 0..limit} :
        \A i \in 1..Len(ohlcv) - 1 : ohlcv[i] < ohlcv[i + 1]}

cache_key(exchange_id, symbol, timeframe) == <<exchange_id, symbol, timeframe>>

\* DataFrame.tail(limit)
tail(data, limit) == SubSeq(data, Max(Len(data) - limit, 0) + 1, Len(data))

\* A returned DataFrame always has rows, so the empty sequence stands for the
\* None that get_klines returns when it has no data.
NoData == <<>>
NoCall == [key |-> <<>>, limit |-> 0, at |-> 0, fetches |-> 0,
           result |-> NoData]

\* get_klines, were an empty answer cached like any other.
get_klines_caching_empty(md, lu, key, limit, current_time, failures, ohlcv) ==
    LET fresh == /\ key \in DOMAIN md
                 /\ key \in DOMAIN lu
                 /\ current_time - lu[key] < data_refresh_interval
    IN  IF fresh /\ Len(md[key]) >= limit
        THEN [market_data |-> md, last_update |-> lu, fetches |-> 0,
              result |-> tail(md[key], limit)]
        ELSE IF failures >= max_retries
        THEN [market_data |-> md, last_update |-> lu,
              fetches |-> max_retries, result |-> NoData]
        ELSE [market_data |-> Put(md, key, ohlcv),
              last_update |-> Put(lu, key, current_time),
              fetches |-> failures + 1, result |-> ohlcv]

\* One call: `failures` attempts of fetch_ohlcv raise before one answers
\* `ohlcv`.
get_klines(md, lu, key, limit, current_time, failures, ohlcv) ==
    LET fresh == /\ key \in DOMAIN md
                 /\ key \in DOMAIN lu
                 /\ current_time - lu[key] < data_refresh_interval
    IN  IF fresh /\ Len(md[key]) >= limit
        THEN [market_data |-> md, last_update |-> lu, fetches |-> 0,
              result |-> tail(md[key], limit)]
        ELSE IF failures >= max_retries
        THEN [market_data |-> md, last_update |-> lu,
              fetches |-> max_retries, result |-> NoData]
        ELSE IF Len(ohlcv) = 0
        THEN [market_data |-> md, last_update |-> lu,
              fetches |-> failures + 1, result |-> NoData]
        ELSE [market_data |-> Put(md, key, ohlcv),
              last_update |-> Put(lu, key, current_time),
              fetches |-> failures + 1, result |-> ohlcv]

InitKlines ==
    /\ config = [default_exchange |-> default_exchange]
    /\ symbols = {"AAA/USDT"}
    /\ exchange = [fetch_ohlcv |-> TRUE]
    /\ ticker = {}
    /\ EngineStart
    /\ ExecutorIdle
    /\ ProviderIdle

\* A caller asks for klines; `last` keeps this call and the one before it.
klines_call ==
    \E symbol \in symbols, timeframe \in {"5m", "1h"}, limit \in {1, 2},
       failures \in {0, 1, max_retries} :
      \E ohlcv \in Ohlcv(limit) :
        LET key == cache_key(config.default_exchange, symbol, timeframe)
            r == get_klines(market_data, last_update, key, limit, clock,
                            failures, ohlcv)
        IN  /\ market_data' = r.market_data
            /\ last_update' = r.last_update
            /\ last' = [op |-> "get_klines",
                        call |-> [key |-> key, limit |-> limit, at |-> clock,
                                  fetches |-> r.fetches,
                                  result |-> r.result],
                        previous |-> IF last.op = "get_klines"
                                     THEN last.call ELSE NoCall]
            /\ UNCHANGED <<config, symbols, exchange, ticker, clock,
                           positions, current_risk, sector_allocation,
                           current_positions, blacklist, executor_vars>>

seconds_pass ==
    /\ clock < MaxTime
    /\ clock' = clock + 1
    /\ UNCHANGED <<config, symbols, exchange, ticker, positions,
                   current_risk, sector_allocation, current_positions,
                   blacklist, last, executor_vars, provider_vars>>

SpecKlines == InitKlines /\ [][klines_call \/ seconds_pass]_vars

(***************************************************************************)
(* OrderExecutor: the order handlers with the calls they make on the       *)
(* exchange.  Sizes are in 1/SizeUnit and are floored to the market's      *)
(* amount step in exact arithmetic; the order book is read once per order. *)
(* `last` keeps the latest handler's calls and its result.                 *)
(***************************************************************************)
MaxOrders == 2

MaxBatches == 5

\* _adjust_precision(size, market['precision']['amount']) for the step 0.01
adjusted(size) == (size \div (SizeUnit \div 100)) * (SizeUnit \div 100)

OrderMarket == [precision |-> [price |-> [kind |-> "digits", value |-> 2]]]

\* What the exchange does with a limit order: it fills within the wait or
\* not, cancel_order succeeds or raises, and fetch_order reports the
\* remaining amount in halves of the order.
Fills ==
    {[filled |-> TRUE, cancel |-> TRUE, halves |-> 0],
     [filled |-> FALSE, cancel |-> FALSE, halves |-> 2],
     [filled |-> FALSE, cancel |-> TRUE, halves |-> 0],
     [filled |-> FALSE, cancel |-> TRUE, halves |-> 1],
     [filled |-> FALSE, cancel |-> TRUE, halves |-> 2]}

Call(method, symbol, amount, price) ==
    [method |-> method, symbol |-> symbol, amount |-> amount, price |-> price]

\* The live branch with the market order placed for the whole size and
\* before the cancel.
market_then_cancel(order_method, symbol, adjusted_size, actual_price, fill) ==
    LET limit == Call("create_limit_" \o order_method \o "_order", symbol,
                      adjusted_size, actual_price)
        cancel == Call("cancel_order", symbol, None, None)
        market_order == Call("create_market_" \o order_method \o "_order",
                             symbol, adjusted_size, None)
    IN  IF fill.filled
        THEN [calls |-> <<limit>>, raised |-> FALSE]
        ELSE [calls |-> <<limit, market_order, cancel>>,
              raised |-> ~fill.cancel]

\* The live branch of _execute_single_entry and of execute_exit: a limit
\* order, the wait, and on no fill the cancel and a market order for the
\* remainder.  order_method is "buy" or "sell".
limit_then_market(order_method, symbol, adjusted_size, actual_price, fill) ==
    LET limit == Call("create_limit_" \o order_method \o "_order", symbol,
                      adjusted_size, actual_price)
        cancel == Call("cancel_order", symbol, None, None)
        remaining == (fill.halves * adjusted_size) \div 2
        market_order == Call("create_market_" \o order_method \o "_order",
                             symbol, remaining, None)
    IN  IF fill.filled
        THEN [calls |-> <<limit>>, raised |-> FALSE]
        ELSE IF ~fill.cancel
        THEN [calls |-> <<limit, cancel>>, raised |-> TRUE]
        ELSE IF remaining > 0
        THEN [calls |-> <<limit, cancel, market_order>>, raised |-> FALSE]
        ELSE [calls |-> <<limit, cancel>>, raised |-> FALSE]

Failure == [success |-> FALSE, error |-> "error"]

\* _execute_single_entry; `market_known` is false when exchange.market
\* raises.
execute_single_entry(cfg, symbol, size, price, stage, orderbook, fill, market_known, now) ==
    LET actual_price == calculate_buy_price(price, orderbook, OrderMarket)
        adjusted_size == adjusted(size)
        order == limit_then_market("buy", symbol, adjusted_size,
                                   actual_price, fill)
        result(order_id) ==
            [success |-> TRUE, order_id |-> order_id, symbol |-> symbol,
             size |-> adjusted_size, avg_price |-> actual_price,
             stage |-> stage, timestamp |-> now]
    IN  IF ~market_known
        THEN [calls |-> <<>>, result |-> Failure]
        ELSE IF Amount(adjusted_size, actual_price) < cfg.min_order_amount
        THEN [calls |-> <<>>, result |-> Failure]
        ELSE IF cfg.dry_run
        THEN [calls |-> <<>>, result |-> result(<<"dry_run", now>>)]
        ELSE IF order.raised
        THEN [calls |-> order.calls, result |-> Failure]
        ELSE [calls |-> order.calls, result |-> result(<<"id", now>>)]

\* The number of batches without the cap.
batch_count_uncapped(cfg, size) ==
    (size + cfg.iceberg_threshold - 1) \div cfg.iceberg_threshold

batch_count(cfg, size) ==
    Min(MaxBatches,
        (size + cfg.iceberg_threshold - 1) \div cfg.iceberg_threshold)

RECURSIVE iceberg_batches(_, _, _, _, _, _, _, _, _, _)
\* The loop of _execute_iceberg_entry from batch i on; `done` holds the
\* calls made, the orders filled and the totals so far.  The batches from
\* `fail_from` on find no market.
iceberg_batches(cfg, symbol, size, price, stage, orderbook, fill, fail_from, i, done) ==
    IF i > batch_count(cfg, size)
    THEN done
    ELSE LET batch_size == size \div batch_count(cfg, size)
             current_batch == Min(batch_size, size - done.total_filled)
             batch == execute_single_entry(
                          cfg, symbol, current_batch, price,
                          <<stage, "iceberg", i>>, orderbook, fill,
                          fail_from = 0 \/ i < fail_from, done.now)
         IN  IF batch.result.success
             THEN iceberg_batches(
                      cfg, symbol, size, price, stage, orderbook, fill,
                      fail_from, i + 1,
                      [calls |-> done.calls \o batch.calls,
                       orders |-> Append(done.orders, batch.result),
                       total_filled |-> done.total_filled
                                          + batch.result.size,
                       total_cost |-> done.total_cost
                                        + batch.result.size
                                            * batch.result.avg_price,
                       now |-> done.now + 1])
             ELSE [done EXCEPT !.calls = @ \o batch.calls]

execute_iceberg_entry(cfg, symbol, size, price, stage, orderbook, fill, fail_from, now) ==
    LET done == iceberg_batches(cfg, symbol, size, price, stage, orderbook,
                                fill, fail_from, 1,
                                [calls |-> <<>>, orders |-> <<>>,
                                 total_filled |-> 0, total_cost |-> 0,
                                 now |-> now])
    IN  [calls |-> done.calls,
         result |-> [success |-> done.total_filled > 0,
                     symbol |-> symbol,
                     size |-> done.total_filled,
                     avg_price |-> IF done.total_filled > 0
                                   THEN done.total_cost
                                            \div done.total_filled
                                   ELSE price,
                     stage |-> stage,
                     timestamp |-> done.now,
                     orders |-> done.orders,
                     is_iceberg |-> TRUE]]

\* OrderExecutor.execute_entry up to the journal
execute_order_entry(cfg, symbol, size, price, stage, orderbook, fill, fail_from, now) ==
    IF size > cfg.iceberg_threshold
    THEN execute_iceberg_entry(cfg, symbol, size, price, stage, orderbook,
                               fill, fail_from, now)
    ELSE execute_single_entry(cfg, symbol, size, price, stage, orderbook,
                              fill, fail_from = 0, now)

\* OrderExecutor.execute_exit up to the journal
execute_order_exit(cfg, symbol, size, price, reason, orderbook, fill, now) ==
    LET actual_price == calculate_sell_price(price, orderbook, OrderMarket)
        adjusted_size == adjusted(size)
        order == limit_then_market("sell", symbol, adjusted_size,
                                   actual_price, fill)
        result(order_id) ==
            [success |-> TRUE, order_id |-> order_id, symbol |-> symbol,
             size |-> adjusted_size, avg_price |-> actual_price,
             reason |-> reason, timestamp |-> now]
    IN  IF cfg.dry_run
        THEN [calls |-> <<>>, result |-> result(<<"dry_run", now>>)]
        ELSE IF order.raised
        THEN [calls |-> order.calls, result |-> Failure]
        ELSE [calls |-> order.calls, result |-> result(<<"id", now>>)]

\* set_stop_loss placing the order on the exchange whatever dry_run says.
stop_loss_order_live(cfg, ex, symbol, stop_price, size, now) ==
    [calls |-> <<Call("create_stop_loss_order", symbol, adjusted(size),
                      stop_price)>>,
     result |-> [success |-> TRUE, order_id |-> <<"id", now>>,
                 stop_price |-> stop_price, size |-> adjusted(size),
                 type |-> "stop_loss", timestamp |-> now]]

\* OrderExecutor.set_stop_loss with the calls it makes
stop_loss_order(cfg, ex, symbol, stop_price, size, now) ==
    LET adjusted_size == adjusted(size)
        placed(order_id) ==
            [success |-> TRUE, order_id |-> order_id,
             stop_price |-> stop_price, size |-> adjusted_size,
             type |-> "stop_loss", timestamp |-> now]
    IN  IF ex.create_stop_loss_order
        THEN IF cfg.dry_run
             THEN [calls |-> <<>>, result |-> placed(<<"dry_run_sl", now>>)]
             ELSE [calls |-> <<Call("create_stop_loss_order", symbol,
                                    adjusted_size, stop_price)>>,
                   result |-> placed(<<"id", now>>)]
        ELSE [calls |-> <<>>,
              result |-> [success |-> FALSE, error |-> "error",
                          stop_price |-> stop_price, size |-> adjusted_size,
                          type |-> "soft_stop_loss", timestamp |-> now]]

\* OrderExecutor.update_stop_loss with the calls it makes; open_orders is
\* what fetch_open_orders(symbol) answers.
update_stop_loss_order(cfg, ex, symbol, new_stop_price, size, open_orders, now) ==
    LET stops == SelectSeq(open_orders,
                           LAMBDA order : order.type \in {"stop", "stop_loss"})
        cancels == [i \in 1..Len(stops) |->
                       Call("cancel_order", symbol, None, None)]
        set == stop_loss_order(cfg, ex, symbol, new_stop_price, size, now)
    IN  [calls |-> <<Call("fetch_open_orders", symbol, None, None)>>
                     \o cancels \o set.calls,
         result |-> set.result]

\* OrderExecutor.set_conditional_order with the calls it makes
conditional_order(cfg, ex, symbol, size, price, stage, condition, now) ==
    LET adjusted_size == adjusted(size)
        answer == [trigger_price |-> condition.price, price |-> price,
                   size |-> adjusted_size, stage |-> stage,
                   timestamp |-> now]
        placed(order_id) ==
            [k \in DOMAIN answer \cup {"success", "order_id"} |->
                CASE k = "success" -> TRUE
                  [] k = "order_id" -> order_id
                  [] OTHER -> answer[k]]
    IN  IF cfg.dry_run
        THEN [calls |-> <<>>, result |-> placed(<<"dry_run_cond", now>>)]
        ELSE IF ex.create_order /\ ex.trigger
        THEN [calls |-> <<Call("create_limit_buy_order", symbol,
                               adjusted_size, price)>>,
              result |-> placed(<<"id", now>>)]
        ELSE [calls |-> <<>>,
              result |-> [k \in DOMAIN answer
                                \cup {"success", "error", "type"} |->
                             CASE k = "success" -> FALSE
                               [] k = "error" -> "error"
                               [] k = "type" -> "soft_conditional"
                               [] OTHER -> answer[k]]]

InitOrders ==
    /\ config \in [dry_run : BOOLEAN,
                   iceberg_threshold : {10 * SizeUnit},
                   min_order_amount : {Amount(2 * SizeUnit, PriceUnit)}]
    /\ symbols = {"AAA/USDT"}
    /\ exchange \in [create_stop_loss_order : BOOLEAN, create_order : {TRUE},
                     trigger : BOOLEAN]
    /\ ticker = {}
    /\ ProviderIdle
    /\ EngineStart
    /\ pricing = [called |-> "none"]
    /\ sizing = [called |-> "none"]
    /\ entry_log_file = <<"absent">>
    /\ exit_log_file = <<"absent">>
    /\ journal = [entry |-> <<>>, exit |-> <<>>]

\* the order book the handlers of this part read
OrderBook ==
    [asks |-> <<Level(2 * PriceUnit)>>, bids |-> <<Level(PriceUnit)>>]

\* OrderExecutor.execute_entry
order_entry ==
    /\ Now <= MaxOrders
    /\ \E symbol \in symbols, size \in {1, 5, 25, 60} :
         \E r \in {execute_order_entry(config, symbol, size * SizeUnit,
                                       PriceUnit, "first_stage", OrderBook,
                                       fill, fail_from, Now) :
                       fill \in Fills, fail_from \in {0, 2}} :
           LET result == IF r.result.success
                         THEN Put(r.result, "exchange_id", default_exchange)
                         ELSE r.result
           IN  /\ last' = [op |-> "execute_entry", size |-> size * SizeUnit,
                           price |-> PriceUnit, calls |-> r.calls,
                           result |-> result]
               /\ IF result.success
                  THEN /\ entry_log_file' = log_entry_order(entry_log_file,
                                                            result)
                       /\ journal' = [journal EXCEPT
                                        !.entry = Append(@, entry_log_record(
                                                                result))]
                  ELSE UNCHANGED <<entry_log_file, journal>>
    /\ UNCHANGED <<config, symbols, exchange, ticker, clock, positions,
                   current_risk, sector_allocation, current_positions,
                   blacklist, provider_vars, pricing, sizing,
                   exit_log_file>>

\* OrderExecutor.execute_exit
order_exit ==
    /\ Now <= MaxOrders
    /\ \E symbol \in symbols, fill \in Fills :
         LET r == execute_order_exit(config, symbol, 5 * SizeUnit,
                                     2 * PriceUnit, "take_profit",
                                     OrderBook, fill, Now)
         IN
           /\ last' = [op |-> "execute_exit", size |-> 5 * SizeUnit,
                       price |-> 2 * PriceUnit, fill |-> fill,
                       calls |-> r.calls, result |-> r.result]
           /\ IF r.result.success
              THEN /\ exit_log_file' = log_exit_order(
                                           exit_log_file, entry_log_file,
                                           r.result, default_exchange)
                   /\ journal' = [journal EXCEPT
                                    !.exit = Append(@, exit_log_record(
                                                 entry_log_file, r.result,
                                                 default_exchange))]
              ELSE UNCHANGED <<exit_log_file, journal>>
    /\ UNCHANGED <<config, symbols, exchange, ticker, clock, positions,
                   current_risk, sector_allocation, current_positions,
                   blacklist, provider_vars, pricing, sizing,
                   entry_log_file>>

\* OrderExecutor.set_stop_loss
order_stop_loss ==
    /\ \E symbol \in symbols, stop_price \in {PriceUnit, 2 * PriceUnit} :
         LET r == stop_loss_order(config, exchange, symbol, stop_price,
                                  5 * SizeUnit, Now)
         IN  last' = [op |-> "set_stop_loss", size |-> 5 * SizeUnit,
                      price |-> stop_price, calls |-> r.calls, result |-> r.result]
    /\ UNCHANGED <<config, symbols, exchange, ticker, clock, positions,
                   current_risk, sector_allocation, current_positions,
                   blacklist, provider_vars, executor_vars>>

\* OrderExecutor.update_stop_loss
order_update_stop_loss ==
    /\ \E symbol \in symbols, stop_price \in {PriceUnit, 2 * PriceUnit},
          open_orders \in {<<>>, <<[id |-> "a", type |-> "limit"]>>,
                           <<[id |-> "a", type |-> "stop_loss"]>>,
                           <<[id |-> "a", type |-> "limit"],
                             [id |-> "b", type |-> "stop"]>>} :
         LET r == update_stop_loss_order(config, exchange, symbol, stop_price,
                                         5 * SizeUnit, open_orders, Now)
         IN  last' = [op |-> "update_stop_loss", size |-> 5 * SizeUnit,
                      price |-> stop_price, calls |-> r.calls,
                      result |-> r.result]
    /\ UNCHANGED <<config, symbols, exchange, ticker, clock, positions,
                   current_risk, sector_allocation, current_positions,
                   blacklist, provider_vars, executor_vars>>

\* OrderExecutor.set_conditional_order
order_conditional ==
    /\ \E symbol \in symbols, trigger_price \in {PriceUnit, 2 * PriceUnit} :
         LET r == conditional_order(config, exchange, symbol, 5 * SizeUnit,
                                    PriceUnit, "second_stage",
                                    [type |-> "price_above",
                                     price |-> trigger_price], Now)
         IN  last' = [op |-> "set_conditional_order", size |-> 5 * SizeUnit,
                      price |-> PriceUnit, calls |-> r.calls, result |-> r.result]
    /\ UNCHANGED <<config, symbols, exchange, ticker, clock, positions,
                   current_risk, sector_allocation, current_positions,
                   blacklist, provider_vars, executor_vars>>

SpecOrders ==
    InitOrders
      /\ [][order_entry \/ order_exit \/ order_stop_loss
              \/ order_update_stop_loss \/ order_conditional]_vars

(***************************************************************************)
(* The monitor on a table of positions entered at 100 with target 120:     *)
(* the sizes and flags are those the take-profit ladder leaves behind.     *)
(* The price 116 is left out: there profit_pct = 0.8 * target_pct in exact *)
(* arithmetic, and the outcome of >= is decided by the rounding of the     *)
(* floats.                                                                 *)
(***************************************************************************)
LadderPositions ==
    { [new_position([profit_target |-> 20, sector |-> NoSector], SizeUnit,
                    [avg_price |-> PriceUnit], 0)
         EXCEPT !.take_profit_1 = fired >= 1,
                !.take_profit_2 = fired >= 2,
                !.position_size = CASE fired = 0 -> SizeUnit
                                    [] fired = 1 -> SizeTimes(SizeUnit, 7)
                                    [] fired = 2 -> SizeTimes(
                                                      SizeTimes(SizeUnit, 7),
                                                      6)] :
        fired \in 0..2 }

InitMonitor ==
    /\ config = CHOOSE c \in Configs : TRUE
    /\ symbols = {"AAA/USDT"}
    /\ exchange \in [create_stop_loss_order : BOOLEAN]
    /\ ticker = {PriceUnit + PriceUnit \div 200}
                  \cup {PriceTimes(PriceUnit, k) : k \in {115, 120, 124}}
    /\ clock = 0
    /\ \E held \in SUBSET symbols : positions \in [held -> LadderPositions]
    /\ current_risk = config.max_risk_per_trade * Cardinality(DOMAIN positions)
    /\ sector_allocation = <<>>
    /\ current_positions = {}
    /\ blacklist = {}
    /\ last = NoEvent("init")
    /\ ExecutorIdle
    /\ ProviderIdle

NextMonitor == monitor_positions \/ time_passes

SpecMonitor == InitMonitor /\ [][NextMonitor]_vars

\* Two positions just entered, watched at two prices.
InitMonitorPair ==
    /\ config = CHOOSE c \in Configs : TRUE
    /\ symbols = Symbols
    /\ exchange = [create_stop_loss_order |-> TRUE]
    /\ ticker = {PriceUnit + PriceUnit \div 200, PriceTimes(PriceUnit, 120)}
    /\ clock = 0
    /\ positions \in [symbols -> {p \in LadderPositions :
                                     ~p.take_profit_1}]
    /\ current_risk = config.max_risk_per_trade * Cardinality(DOMAIN positions)
    /\ sector_allocation = <<>>
    /\ current_positions = {}
    /\ blacklist = {}
    /\ last = NoEvent("init")
    /\ ExecutorIdle
    /\ ProviderIdle

SpecMonitorPair == InitMonitorPair /\ [][NextMonitor]_vars

(***************************************************************************)
(* RiskManager.update_blacklist.  The tradable universe is the list        *)
(* 1..n of symbol numbers, in the order get_tradable_symbols returns it;   *)
(* drawdowns are in percent and volumes in dollars.                        *)
(***************************************************************************)
MaxUniverse == 101

\* _check_blacklist_conditions on what the data provider answers
check_blacklist_conditions(max_drawdown, volume) ==
    IF max_drawdown # None /\ max_drawdown > 25
    THEN TRUE
    ELSE volume # None /\ volume < 1000000

\* The new blacklist; `budget` is the number of batches started before the
\* 120 s have run out.
update_blacklist(universe, max_drawdown, volume, budget) ==
    LET batch_size == 20
        length == Cardinality(universe)
        max_batches == Min(5, length \div batch_size + 1)
        starts == {i \in 0..(Min(max_batches * batch_size, length) - 1) :
                      i % batch_size = 0}
        batches == {{s \in universe : i < s /\ s <= i + batch_size} :
                       i \in {i \in starts : i \div batch_size < budget}}
    IN  {s \in UNION batches :
            check_blacklist_conditions(max_drawdown[s], volume[s])}

InitBlacklist ==
    /\ config = CHOOSE c \in Configs : TRUE
    /\ symbols \in {1..n : n \in {0, 20, 21, 100, MaxUniverse}}
    /\ exchange = [create_stop_loss_order |-> FALSE]
    /\ ticker = {}
    /\ EngineStart
    /\ ExecutorIdle
    /\ ProviderIdle

\* MomentumStrategy.update_blacklist: at most one symbol of the universe is
\* in bad shape, by its drawdown or by its volume.
blacklist_update ==
    /\ \E bad \in symbols \cup {None}, by_drawdown \in BOOLEAN,
          budget \in {1, 5} :
         LET max_drawdown == [s \in symbols |->
                                IF s = bad /\ by_drawdown THEN 30 ELSE 10]
             volume == [s \in symbols |->
                          IF s = bad /\ ~by_drawdown THEN 500000
                          ELSE 2000000]
         IN  /\ blacklist' = update_blacklist(symbols, max_drawdown, volume,
                                              budget)
             /\ last' = [op |-> "update_blacklist",
                         max_drawdown |-> max_drawdown, volume |-> volume,
                         timed_out |-> budget * 20 < Min(Cardinality(symbols),
                                                         100)]
    /\ UNCHANGED <<config, symbols, exchange, ticker, clock, positions,
                   current_risk, sector_allocation, current_positions,
                   executor_vars, provider_vars>>

SpecBlacklist == InitBlacklist /\ [][blacklist_update]_vars

(***************************************************************************)
(* RiskManager.can_open_position asked on its own, from the risk states    *)
(* entries leave behind: whole multiples of max_risk_per_trade.            *)
(***************************************************************************)
InitAdmission ==
    /\ config \in Configs
    /\ symbols = {"AAA/USDT"}
    /\ exchange = [create_stop_loss_order |-> FALSE]
    /\ ticker = {}
    /\ clock = 0
    /\ positions = <<>>
    /\ \E entries \in 0..3, in_sector \in 0..3 :
         /\ in_sector <= entries
         /\ current_risk = entries * config.max_risk_per_trade
         /\ current_risk <= config.max_total_risk
         /\ sector_allocation
              = IF in_sector = 0 THEN <<>>
                ELSE [sector \in {"defi"} |->
                         in_sector * config.max_risk_per_trade]
    /\ current_positions = {}
    /\ blacklist = {}
    /\ last = NoEvent("init")
    /\ ExecutorIdle
    /\ ProviderIdle

\* RiskManager.can_open_position(signal)
admission ==
    /\ \E state \in MarketStates \cup {"strong_bear", "strong_bull"} :
         \E signal \in SignalsOf(symbols, state) :
           last' = [op |-> "can_open_position", signal |-> signal,
                    result |-> can_open_position(config, current_risk,
                                                 sector_allocation, signal)]
    /\ UNCHANGED <<config, symbols, exchange, ticker, clock, positions,
                   current_risk, sector_allocation, current_positions,
                   blacklist, executor_vars, provider_vars>>

SpecAdmission == InitAdmission /\ [][admission]_vars

(***************************************************************************)
(* RiskManager.update_position, called as its comments intend: "open"      *)
(* after calculate_position_size, "close" and "partial_close" on exits.    *)
(* A raise leaves the assignments made before it in place.                 *)
(***************************************************************************)
update_position(cfg, held, risk, alloc, symbol, action, halves) ==
    LET same == [current_positions |-> held, current_risk |-> risk,
                 sector_allocation |-> alloc, raised |-> FALSE]
    IN  CASE action = "open" ->
                 [same EXCEPT !.current_positions = held \cup {symbol}]
          [] action = "close" /\ symbol \in held ->
                 \* the loop divides by len(current_positions) after the del
                 LET rest == held \ {symbol}
                     closed == [same EXCEPT
                                  !.current_positions = rest,
                                  !.current_risk = risk
                                                     - cfg.max_risk_per_trade]
                 IN  IF DOMAIN alloc = {}
                     THEN closed
                     ELSE IF rest = {}
                     THEN [closed EXCEPT !.raised = TRUE]
                     ELSE [closed EXCEPT
                             !.sector_allocation =
                                 [sector \in DOMAIN alloc |->
                                     alloc[sector]
                                       - cfg.max_risk_per_trade
                                           \div Cardinality(rest)]]
          [] action = "partial_close" /\ halves # None ->
                 \* self.position_sizes is no attribute of the risk manager
                 [same EXCEPT !.raised = TRUE]
          [] OTHER -> same

\* the number of risk-manager calls a behaviour follows
MaxUpdates == 4

InitRisk ==
    /\ config \in Configs
    /\ symbols = Symbols
    /\ exchange = [create_stop_loss_order |-> FALSE]
    /\ ticker = {}
    /\ clock = 0
    /\ positions = <<>>
    /\ current_risk = 0
    /\ sector_allocation = <<>>
    /\ current_positions = {}
    /\ blacklist = {}
    /\ last = [op |-> "init", calls |-> 0]
    /\ ExecutorIdle
    /\ ProviderIdle

\* can_open_position, calculate_position_size and update_position("open")
\* for a signal that is admitted
risk_open ==
    /\ last.calls < MaxUpdates
    /\ \E state \in MarketStates : \E signal \in SignalsOf(symbols, state) :
         /\ signal.symbol \notin current_positions
         /\ can_open_position(config, current_risk, sector_allocation,
                              signal)
         /\ LET r == update_position(
                         config, current_positions,
                         risk_after_sizing(config, current_risk),
                         alloc_after_sizing(config, sector_allocation,
                                            signal),
                         signal.symbol, "open", None)
            IN  /\ current_positions' = r.current_positions
                /\ current_risk' = r.current_risk
                /\ sector_allocation' = r.sector_allocation
                /\ last' = [op |-> "update_position", action |-> "open",
                            symbol |-> signal.symbol, halves |-> None,
                            raised |-> r.raised,
                            calls |-> last.calls + 1]
    /\ UNCHANGED <<config, symbols, exchange, ticker, clock, positions,
                   blacklist, executor_vars, provider_vars>>

\* update_position(symbol, "close") and update_position(symbol,
\* "partial_close", size) with size one or two halves of the position
risk_close ==
    /\ last.calls < MaxUpdates
    /\ \E symbol \in symbols, halves \in {None, 1, 2} :
         LET action == IF halves = None THEN "close" ELSE "partial_close"
             r == update_position(config, current_positions, current_risk,
                                  sector_allocation, symbol, action, halves)
         IN  /\ symbol \in current_positions
             /\ current_positions' = r.current_positions
             /\ current_risk' = r.current_risk
             /\ sector_allocation' = r.sector_allocation
             /\ last' = [op |-> "update_position", action |-> action,
                         symbol |-> symbol, halves |-> halves,
                         raised |-> r.raised,
                            calls |-> last.calls + 1]
    /\ UNCHANGED <<config, symbols, exchange, ticker, clock, positions,
                   blacklist, executor_vars, provider_vars>>

SpecRisk == InitRisk /\ [][risk_open \/ risk_close]_vars

(***************************************************************************)
(* The journals across a process crash.  The append is open(file, 'w'),    *)
(* which truncates, followed by json.dump, which writes the array piece by *)
(* piece: a crash in between leaves the part of the text written so far,   *)
(* here the first records of the array, and that text does not parse.      *)
(* journal keeps the record of every fill, journalled or cut short.        *)
(***************************************************************************)
torn(file) ==
    {<<"torn", SubSeq(file[2], 1, n)>> : n \in 0..(Len(file[2]) - 1)}

\* A journal is absent, an array, or what a crash left of one.
InitCrash ==
    /\ JournalsOnly
    /\ entry_log_file \in {<<"absent">>, <<"torn", <<>> >>}
    /\ exit_log_file \in {<<"json", <<>> >>, <<"torn", <<>> >>}
    /\ journal = [entry |-> <<>>, exit |-> <<>>]

\* _log_entry_order cut short by a crash inside its `with open(..., 'w')`
entry_crash ==
    /\ Now <= MaxFills
    /\ \E order_result \in SingleEntries :
         LET result == Put(order_result, "exchange_id", default_exchange)
         IN  /\ entry_log_file'
                   \in torn(log_entry_order(entry_log_file, result))
             /\ journal' = [journal EXCEPT
                              !.entry = Append(@, entry_log_record(result))]
    /\ UNCHANGED <<engine_vars, provider_vars, pricing, sizing,
                   exit_log_file>>

\* _log_exit_order cut short by a crash inside its `with open(..., 'w')`
exit_crash ==
    /\ Now <= MaxFills
    /\ \E order_result \in ExitFills :
         /\ exit_log_file' \in
                torn(log_exit_order(exit_log_file, entry_log_file,
                                    order_result, default_exchange))
         /\ journal' = [journal EXCEPT
                          !.exit = Append(@, exit_log_record(
                                                entry_log_file, order_result,
                                                default_exchange))]
    /\ UNCHANGED <<engine_vars, provider_vars, pricing, sizing,
                   entry_log_file>>

SpecCrash == InitCrash /\ [][entry_fill \/ exit_fill \/ entry_crash \/ exit_crash]_vars

(***************************************************************************)
(* get_klines called by two threads that share the provider (a scan and    *)
(* the monitor).  The statements that touch the cache maps are followed    *)
(* one by one: the test at the top, the fetch (a blocking point), the      *)
(* assignment of market_data and the assignment of last_update.  None of   *)
(* them is inside `with self.cache_lock`.  A cached frame is known by the  *)
(* current_time of the call that fetched it and by its number of bars.     *)
(***************************************************************************)
Callers == {"scan", "monitor"}

SharedKey == cache_key(default_exchange, "AAA/USDT", "5m")

InitCache ==
    /\ config = [default_exchange |-> default_exchange]
    /\ symbols = {"AAA/USDT"}
    /\ exchange = [fetch_ohlcv |-> TRUE]
    /\ ticker = {}
    /\ clock = 0
    /\ positions = <<>>
    /\ current_risk = 0
    /\ sector_allocation = <<>>
    /\ current_positions = {}
    /\ blacklist = {}
    /\ last = [op |-> "init", pc |-> [c \in Callers |-> "idle"],
               call |-> [c \in Callers |-> [current_time |-> 0, bars |-> 0]],
               locked |-> TRUE, observed |-> <<>>]
    /\ ExecutorIdle
    /\ ProviderIdle

\* lines 137-148 and the fetch: a hit returns the cached frame, judged by
\* the timestamp read beside it; a miss goes on to fetch_ohlcv
klines_check(c) ==
    /\ last.pc[c] = "idle"
    /\ \E limit \in {1, 2} :
         LET fresh == /\ SharedKey \in DOMAIN market_data
                      /\ SharedKey \in DOMAIN last_update
                      /\ clock - last_update[SharedKey]
                           < data_refresh_interval
         IN  IF fresh /\ market_data[SharedKey].bars >= limit
             THEN last' = [last EXCEPT
                             !.op = "get_klines", !.locked = FALSE,
                             !.observed =
                                 <<market_data[SharedKey].current_time,
                                   last_update[SharedKey]>>]
             ELSE \E bars \in 1..limit :
                    last' = [last EXCEPT
                               !.op = "get_klines", !.locked = FALSE,
                               !.observed = <<>>,
                               !.pc[c] = "market_data",
                               !.call[c] = [current_time |-> clock,
                                            bars |-> bars]]
    /\ UNCHANGED <<config, symbols, exchange, ticker, clock, positions,
                   current_risk, sector_allocation, current_positions,
                   blacklist, executor_vars, provider_vars>>

\* line 182: self.market_data[cache_key] = df
klines_store_data(c) ==
    /\ last.pc[c] = "market_data"
    /\ market_data' = Put(market_data, SharedKey, last.call[c])
    /\ last' = [last EXCEPT !.op = "get_klines", !.locked = FALSE,
                            !.observed = <<>>, !.pc[c] = "last_update"]
    /\ UNCHANGED <<config, symbols, exchange, ticker, clock, positions,
                   current_risk, sector_allocation, current_positions,
                   blacklist, executor_vars, last_update>>

\* line 183: self.last_update[cache_key] = current_time
klines_store_time(c) ==
    /\ last.pc[c] = "last_update"
    /\ last_update' = Put(last_update, SharedKey, last.call[c].current_time)
    /\ last' = [last EXCEPT !.op = "get_klines", !.locked = FALSE,
                            !.observed = <<>>, !.pc[c] = "idle"]
    /\ UNCHANGED <<config, symbols, exchange, ticker, clock, positions,
                   current_risk, sector_allocation, current_positions,
                   blacklist, executor_vars, market_data>>

SpecCache ==
    InitCache
      /\ [][\/ \E c \in Callers : klines_check(c)
            \/ \E c \in Callers : klines_store_data(c)
            \/ \E c \in Callers : klines_store_time(c)
            \/ seconds_pass]_vars

(***************************************************************************)
(* Config: the strategies section through update_strategy_parameter,       *)
(* save_config and _load_config.  A scalar is its Python type and its      *)
(* text; the file holds tokens, a text with or without quotes, as          *)
(* json.dump or yaml.dump writes them, and the loader gives a plain token  *)
(* the type its text resolves to.  The file's text is kept in the          *)
(* configuration under config_file, the path it has in the program.        *)
(***************************************************************************)
\* the type a token without quotes is read as
Resolve(text) ==
    CASE text \in {"true", "false"} -> "bool"
      [] text \in {"0", "1", "2"} -> "int"
      [] OTHER -> "str"

\* dump_scalar, were every YAML str written plain.
dump_scalar_plain(config_type, scalar, is_key) ==
    [quoted |-> config_type = "json" /\ (is_key \/ scalar.type = "str"),
     text |-> scalar.text]

\* json.dump quotes every str and every key; yaml.dump writes a str plain
\* unless the resolver would read the plain text as another type
dump_scalar(config_type, scalar, is_key) ==
    [quoted |-> IF config_type = "json"
                THEN is_key \/ scalar.type = "str"
                ELSE scalar.type = "str" /\ Resolve(scalar.text) # "str",
     text |-> scalar.text]

\* json.load and yaml.safe_load of one token
load_scalar(token) ==
    [type |-> IF token.quoted THEN "str" ELSE Resolve(token.text),
     text |-> token.text]

\* save_config: the "strategies" member of the file written
save_config(config_type, strategies) ==
    LET name_of(t) == CHOOSE name \in DOMAIN strategies :
                          dump_scalar(config_type, name, TRUE) = t
        dumped(parameters) ==
            LET key_of(t) == CHOOSE key \in DOMAIN parameters :
                                 dump_scalar(config_type, key, TRUE) = t
            IN  [t \in {dump_scalar(config_type, key, TRUE) :
                           key \in DOMAIN parameters} |->
                    dump_scalar(config_type, parameters[key_of(t)], FALSE)]
    IN  [t \in {dump_scalar(config_type, name, TRUE) :
                   name \in DOMAIN strategies} |->
            [k \in DOMAIN strategies[name_of(t)] |->
                IF k = "parameters"
                THEN dumped(strategies[name_of(t)][k])
                ELSE dump_scalar(config_type, strategies[name_of(t)][k],
                                 FALSE)]]

\* _load_config: self.strategies = config.get("strategies", {})
load_config(text) ==
    LET token_of(name) == CHOOSE t \in DOMAIN text : load_scalar(t) = name
        loaded(parameters) ==
            LET key_token(key) == CHOOSE t \in DOMAIN parameters :
                                      load_scalar(t) = key
            IN  [key \in {load_scalar(t) : t \in DOMAIN parameters} |->
                    load_scalar(parameters[key_token(key)])]
    IN  [name \in {load_scalar(t) : t \in DOMAIN text} |->
            [k \in DOMAIN text[token_of(name)] |->
                IF k = "parameters"
                THEN loaded(text[token_of(name)][k])
                ELSE load_scalar(text[token_of(name)][k])]]

\* _load_config: the attributes set from the document's other members, of
\* which dry_run and log_dir are followed, with their defaults
load_config_attributes(members) ==
    [k \in {"dry_run", "log_dir"} |->
        IF k \in DOMAIN members
        THEN load_scalar(members[k])
        ELSE IF k = "dry_run"
        THEN [type |-> "bool", text |-> "true"]
        ELSE [type |-> "str", text |-> "logs"]]

\* save_config: the members of the file written next to "strategies"
save_config_members(config_type, attributes) ==
    [k \in DOMAIN attributes |->
        dump_scalar(config_type, attributes[k], FALSE)]

\* update_strategy_parameter, with the save_config at its end
update_strategy_parameter(cfg, strategy_name, parameter_name, value) ==
    LET created == IF strategy_name \in DOMAIN cfg.strategies
                   THEN cfg.strategies
                   ELSE Put(cfg.strategies, strategy_name,
                            [enabled |-> [type |-> "bool", text |-> "true"],
                             parameters |-> <<>>])
        strategy == IF "parameters" \in DOMAIN created[strategy_name]
                    THEN created[strategy_name]
                    ELSE Put(created[strategy_name], "parameters", <<>>)
        strategies ==
            Put(created, strategy_name,
                Put(strategy, "parameters",
                    Put(strategy.parameters, parameter_name, value)))
    IN  [cfg EXCEPT !.strategies = strategies,
                    !.config_file = save_config(cfg.config_type, strategies),
                    !.members = save_config_members(cfg.config_type,
                                                    cfg.attributes)]

\* Config(config_file) on a file without strategies, with a strategy that
\* has no parameters, and with one that has a parameter; next to them the
\* document has dry_run, and log_dir or scan_interval or both
InitConfig ==
    /\ \E config_type \in {"json", "yaml"} :
       \E strategies \in
            { <<>>,
              [name \in {[type |-> "str", text |-> "momentum"]} |->
                  [enabled |-> [type |-> "bool", text |-> "true"]]],
              [name \in {[type |-> "str", text |-> "momentum"]} |->
                  [enabled |-> [type |-> "bool", text |-> "true"],
                   parameters |->
                       [key \in {[type |-> "str", text |-> "profit_target"]}
                           |-> [type |-> "int", text |-> "1"]]]] } :
       \E members \in
            { [k \in {"dry_run", "log_dir"} |->
                  IF k = "dry_run"
                  THEN [quoted |-> FALSE, text |-> "false"]
                  ELSE [quoted |-> TRUE, text |-> "logs"]],
              [k \in {"dry_run", "scan_interval"} |->
                  IF k = "dry_run"
                  THEN [quoted |-> FALSE, text |-> "true"]
                  ELSE [quoted |-> FALSE, text |-> "1"]],
              [k \in {"dry_run", "log_dir", "scan_interval"} |->
                  IF k = "dry_run"
                  THEN [quoted |-> FALSE, text |-> "false"]
                  ELSE IF k = "log_dir"
                  THEN [quoted |-> (config_type = "json"), text |-> "5m"]
                  ELSE [quoted |-> FALSE, text |-> "1"]] } :
         config = [config_type |-> config_type,
                   config_file |-> save_config(config_type, strategies),
                   members |-> members,
                   strategies |->
                       load_config(save_config(config_type, strategies)),
                   attributes |-> load_config_attributes(members)]
    /\ symbols = {}
    /\ exchange = [create_stop_loss_order |-> FALSE]
    /\ ticker = {}
    /\ EngineStart
    /\ ExecutorIdle
    /\ ProviderIdle

\* a caller sets a parameter: names and values are str, int and bool
parameter_update ==
    /\ \E name \in {"momentum", "ma_cross"},
          key \in {"profit_target", "1"},
          value \in [type : {"str"}, text : {"5m", "1"}]
                      \cup {[type |-> "int", text |-> "1"],
                            [type |-> "bool", text |-> "true"]} :
         /\ config' = update_strategy_parameter(
                          config, [type |-> "str", text |-> name],
                          [type |-> "str", text |-> key], value)
         /\ last' = [op |-> "update_strategy_parameter",
                     strategy_name |-> [type |-> "str", text |-> name],
                     parameter_name |-> [type |-> "str", text |-> key],
                     value |-> value]
    /\ UNCHANGED <<symbols, exchange, ticker, clock, positions, current_risk,
                   sector_allocation, current_positions, blacklist,
                   executor_vars, provider_vars>>

\* the configuration is loaded again from its file
config_reload ==
    /\ last.op = "update_strategy_parameter"
    /\ config' = [config EXCEPT
                    !.strategies = load_config(config.config_file),
                    !.attributes = load_config_attributes(config.members)]
    /\ last' = [last EXCEPT !.op = "_load_config"]
    /\ UNCHANGED <<symbols, exchange, ticker, clock, positions, current_risk,
                   sector_allocation, current_positions, blacklist,
                   executor_vars, provider_vars>>

SpecConfig == InitConfig /\ [][parameter_update \/ config_reload]_vars

(***************************************************************************)
(* MarketAnalyzer.adjust_threshold.  Thresholds are in tenths of a per     *)
(* cent; datetime.now() is its hour and its weekday (Monday is 0).         *)
(***************************************************************************)
adjust_threshold(base_threshold, now) ==
    LET utc_hour == (now.hour - 8) % 24
        is_asian_trading_hour == 3 <= utc_hour /\ utc_hour <= 5
        is_weekend == now.weekday >= 5
    IN  IF is_asian_trading_hour
        THEN base_threshold + 5
        ELSE IF is_weekend
        THEN base_threshold - 3
        ELSE base_threshold

\* the signal generator asks for the threshold of this hour
threshold_call ==
    /\ \E base_threshold \in {15, 20, 30},
          now \in [hour : 0..23, weekday : 0..6] :
         last' = [op |-> "adjust_threshold",
                  base_threshold |-> base_threshold, now |-> now,
                  result |-> adjust_threshold(base_threshold, now)]
    /\ UNCHANGED <<config, symbols, exchange, ticker, clock, positions,
                   current_risk, sector_allocation, current_positions,
                   blacklist, executor_vars, provider_vars>>

SpecThreshold == InitKlines /\ [][threshold_call]_vars

(***************************************************************************)
(* One position followed over many monitor passes.  It was entered at a    *)
(* price of 100 ^ 4 ticks, so that five trailing steps of 1% are whole     *)
(* numbers of ticks; the prices seen are 2%, 3.5%, 5% and 10% above it.    *)
(***************************************************************************)
InitTrail ==
    /\ config = CHOOSE c \in Configs : TRUE
    /\ symbols = {"AAA/USDT"}
    /\ exchange \in [create_stop_loss_order : BOOLEAN]
    /\ ticker = {PriceTimes(100 ^ 4, k) : k \in {102, 105, 110}}
                  \cup {(100 ^ 4 \div 1000) * 1035}
    /\ clock = 0
    /\ positions = [s \in symbols |->
                       new_position([profit_target |-> 20,
                                     sector |-> NoSector],
                                    SizeUnit, [avg_price |-> 100 ^ 4], 0)]
    /\ current_risk = config.max_risk_per_trade
    /\ sector_allocation = <<>>
    /\ current_positions = {}
    /\ blacklist = {}
    /\ last = NoEvent("init")
    /\ ExecutorIdle
    /\ ProviderIdle

SpecTrail == InitTrail /\ [][NextMonitor]_vars

(***************************************************************************)
(* SignalGenerator.generate_signals.  A reading is what the data provider  *)
(* answers for a symbol: momentum in tenths of a per cent, volume_ratio in *)
(* tenths, rsi, the current price, and the top sector the symbol is in.    *)
(* Scores are in hundredths of a point here.                               *)
(***************************************************************************)
_calculate_signal_score(momentum, volume_ratio, rsi, in_top_sector) ==
    Min(momentum * 40, 4000)
      + Min((volume_ratio - 10) * 125, 2500)
      + (IF in_top_sector THEN 1500 ELSE 0)
      + (IF rsi = None THEN 0
         ELSE IF 40 <= rsi /\ rsi <= 60 THEN 1000
         ELSE IF (30 <= rsi /\ rsi < 40) \/ (60 < rsi /\ rsi <= 70) THEN 500
         ELSE 0)

\* The funnel with the overbought test at 80 for 75.
evaluate_symbol_lax(symbol, reading, adjusted_threshold, market_state) ==
    IF reading.momentum = None \/ reading.momentum < adjusted_threshold
    THEN [asked |-> <<"calculate_momentum">>, signals |-> <<>>]
    ELSE IF reading.volume_ratio = None \/ reading.volume_ratio < 15
    THEN [asked |-> <<"calculate_momentum", "get_volume_ratio">>,
          signals |-> <<>>]
    ELSE IF reading.rsi = None \/ reading.rsi > 80
    THEN [asked |-> <<"calculate_momentum", "get_volume_ratio",
                      "calculate_rsi">>,
          signals |-> <<>>]
    ELSE IF reading.current_price = None
    THEN [asked |-> <<"calculate_momentum", "get_volume_ratio",
                      "calculate_rsi", "get_current_price">>,
          signals |-> <<>>]
    ELSE [asked |-> <<"calculate_momentum", "get_volume_ratio",
                      "calculate_rsi", "get_current_price",
                      "calculate_atr">>,
          signals |->
              << [symbol |-> symbol, momentum |-> reading.momentum,
                  volume_ratio |-> reading.volume_ratio,
                  rsi |-> reading.rsi,
                  entry_price |-> reading.current_price,
                  sector |-> reading.sector,
                  score |-> _calculate_signal_score(
                                reading.momentum, reading.volume_ratio,
                                reading.rsi, reading.sector # NoSector),
                  market_state |-> market_state] >>]

\* The body of the loop for one symbol: the provider calls it makes, in
\* their order, and the signal it appends, if any.
evaluate_symbol(symbol, reading, adjusted_threshold, market_state) ==
    IF reading.momentum = None \/ reading.momentum < adjusted_threshold
    THEN [asked |-> <<"calculate_momentum">>, signals |-> <<>>]
    ELSE IF reading.volume_ratio = None \/ reading.volume_ratio < 15
    THEN [asked |-> <<"calculate_momentum", "get_volume_ratio">>,
          signals |-> <<>>]
    ELSE IF reading.rsi = None \/ reading.rsi > 75
    THEN [asked |-> <<"calculate_momentum", "get_volume_ratio",
                      "calculate_rsi">>,
          signals |-> <<>>]
    ELSE IF reading.current_price = None
    THEN [asked |-> <<"calculate_momentum", "get_volume_ratio",
                      "calculate_rsi", "get_current_price">>,
          signals |-> <<>>]
    ELSE [asked |-> <<"calculate_momentum", "get_volume_ratio",
                      "calculate_rsi", "get_current_price",
                      "calculate_atr">>,
          signals |->
              << [symbol |-> symbol, momentum |-> reading.momentum,
                  volume_ratio |-> reading.volume_ratio,
                  rsi |-> reading.rsi,
                  entry_price |-> reading.current_price,
                  sector |-> reading.sector,
                  score |-> _calculate_signal_score(
                                reading.momentum, reading.volume_ratio,
                                reading.rsi, reading.sector # NoSector),
                  market_state |-> market_state] >>]

\* sorted(signals, key = score, reverse = True): stable
RECURSIVE sorted_signals(_)
sorted_signals(signals) ==
    IF signals = <<>>
    THEN <<>>
    ELSE LET rest == sorted_signals(Tail(signals))
             before == SelectSeq(rest,
                                 LAMBDA s : s.score > Head(signals).score)
             after == SelectSeq(rest,
                                LAMBDA s : s.score <= Head(signals).score)
         IN  before \o <<Head(signals)>> \o after

\* generate_signals(symbols): what was asked of the provider per symbol,
\* and the list returned
RECURSIVE generate_signals(_, _, _, _)
generate_signals(todo, readings, adjusted_threshold, market_state) ==
    IF todo = <<>>
    THEN [asked |-> <<>>, signals |-> <<>>]
    ELSE LET r == evaluate_symbol(Head(todo), readings[Head(todo)],
                                  adjusted_threshold, market_state)
             rest == generate_signals(Tail(todo), readings,
                                      adjusted_threshold, market_state)
         IN  [asked |-> <<r.asked>> \o rest.asked,
              signals |-> r.signals \o rest.signals]

\* What the provider would answer for each symbol is held in `ticker`.
InitSignals ==
    /\ config = [default_exchange |-> default_exchange]
    /\ symbols = Symbols
    /\ exchange = [fetch_ohlcv |-> TRUE]
    /\ ticker \in [Symbols -> [momentum : {None, 10, 20, 60},
                               volume_ratio : {None, 14, 15},
                               rsi : {None, 75, 76},
                               current_price : {None, PriceUnit},
                               sector : {"defi"}]]
    /\ EngineStart
    /\ ExecutorIdle
    /\ ProviderIdle

\* A scan asks for the signals of a list of symbols, at a threshold of 1.5
\* adjusted for the hour.
signals_call ==
    /\ \E todo \in {<<"AAA/USDT">>, <<"AAA/USDT", "BBB/USDT">>,
                    <<"BBB/USDT", "AAA/USDT">>},
          now \in {[hour |-> 0, weekday |-> 0], [hour |-> 12, weekday |-> 0],
                   [hour |-> 0, weekday |-> 5]} :
         LET r == generate_signals(todo, ticker, adjust_threshold(15, now),
                                   "bull")
         IN  last' = [op |-> "generate_signals", symbols |-> todo,
                      adjusted_threshold |-> adjust_threshold(15, now),
                      asked |-> r.asked,
                      result |-> sorted_signals(r.signals)]
    /\ UNCHANGED <<config, symbols, exchange, ticker, clock, positions,
                   current_risk, sector_allocation, current_positions,
                   blacklist, executor_vars, provider_vars>>

SpecSignals == InitSignals /\ [][signals_call]_vars

(***************************************************************************)
(* Scans over a universe of two symbols, nothing held at the start.        *)
(***************************************************************************)
InitScan ==
    /\ config \in Configs
    /\ symbols = Symbols
    /\ exchange = [create_stop_loss_order |-> TRUE]
    /\ ticker = Prices
    /\ EngineStart
    /\ ExecutorIdle
    /\ ProviderIdle

SpecScan == InitScan /\ [][scan_market_with(BtcAtrs)]_vars

(***************************************************************************)
(* Properties of the engine                                                *)
(***************************************************************************)
Kept == DOMAIN positions \cap DOMAIN positions'

TakeProfitExits(s) ==
    SelectSeq(last'.seen[s].exits, LAMBDA e : e.reason = "take_profit")

FlagOf(position, k) ==
    CASE k = 1 -> position.take_profit_1
      [] k = 2 -> position.take_profit_2
      [] OTHER -> position.take_profit_3

\* C1: over a monitor_positions pass no position's stop_loss decreases.
C1_StopNeverDecreases ==
    [][last'.op = "monitor" =>
          \A s \in Kept : positions'[s].stop_loss >= positions[s].stop_loss]_vars

C1_Witness ==
    \E s \in DOMAIN positions :
        /\ last.op = "monitor"
        /\ last.seen[s].stops # <<>>
        /\ positions[s].stop_loss > positions[s].entry_price

\* C2: in a monitor pass a position fires at most one take-profit stage, a
\* stage fires only while its own flag is unset and every earlier stage's
\* flag is set, the stage that fired has its flag set afterwards, and no
\* flag of a position that stays open goes back to false.
C2_TakeProfitOnceInOrder ==
    [][last'.op = "monitor" =>
          \A s \in DOMAIN positions :
              /\ Len(TakeProfitExits(s)) <= 1
              /\ \A i \in 1..Len(TakeProfitExits(s)) :
                    LET k == TakeProfitExits(s)[i].stage
                    IN  /\ ~FlagOf(positions[s], k)
                        /\ \A j \in 1..(k - 1) : FlagOf(positions[s], j)
                        /\ s \in Kept => FlagOf(positions'[s], k)
              /\ s \in Kept =>
                    \A k \in 1..3 :
                        FlagOf(positions[s], k) => FlagOf(positions'[s], k)]_vars

C2_Witness ==
    \E s \in DOMAIN positions :
        /\ last.op = "monitor"
        /\ Len(last.seen[s].exits) = 1
        /\ last.seen[s].exits[1].stage = 2
        /\ positions[s].take_profit_1 /\ positions[s].take_profit_2

\* C3 (as claimed): a position whose take_profit_1 flag is set holds at most
\* 0.7 of the size entered, and one whose take_profit_2 flag is set at most
\* 0.7 * 0.6 of it, whatever the exit orders answered.
C3_SoldFractionClaim ==
    \A s \in DOMAIN positions :
        /\ positions[s].take_profit_1 =>
              positions[s].position_size * 10 <= positions[s].original_size * 7
        /\ positions[s].take_profit_2 =>
              positions[s].position_size * 100
                  <= positions[s].original_size * 42

\* C4: the total risk never exceeds max_total_risk and no sector's
\* allocation exceeds max_sector_allocation * max_total_risk.
C4_RiskWithinCaps ==
    /\ current_risk <= config.max_total_risk
    /\ \A sector \in DOMAIN sector_allocation :
          sector_allocation[sector] * 10
              <= config.max_sector_allocation * config.max_total_risk

\* the caps bind: a further entry, in the sector or outside, is refused
C4_Witness ==
    /\ last.op = "scan"
    /\ current_risk + config.max_risk_per_trade > config.max_total_risk
    /\ \E sector \in DOMAIN sector_allocation :
          (sector_allocation[sector] + config.max_risk_per_trade) * 10
              > config.max_sector_allocation * config.max_total_risk

SuccessfulExit(s) ==
    \E i \in 1..Len(last'.seen[s].exits) : last'.seen[s].exits[i].success

\* C5 (as claimed): a monitor pass in which an exit order succeeded
\* releases risk (update_position "partial_close" / "close" lowers
\* current_risk).
C5_ExitReleasesRiskClaim ==
    [][(last'.op = "monitor" /\ \E s \in DOMAIN positions : SuccessfulExit(s))
          => current_risk' < current_risk]_vars

\* C6 (as claimed): a scan enters no symbol that has an open position.
C6_OnePositionPerSymbolClaim ==
    [][last'.op = "scan" =>
          \A i \in 1..Len(last'.entered) :
              last'.entered[i] \notin DOMAIN positions]_vars

\* C7 (as claimed): without a native stop order, a monitor pass that sees a
\* price at or below a position's stop_loss exits the position.
C7_SoftStopEnforcedClaim ==
    [][(last'.op = "monitor" /\ ~exchange.create_stop_loss_order) =>
          \A s \in DOMAIN positions :
              (/\ last'.seen[s].price # None
               /\ last'.seen[s].price <= positions[s].stop_loss)
              => /\ s \notin DOMAIN positions'
                 /\ \E i \in 1..Len(last'.seen[s].exits) :
                       last'.seen[s].exits[i].reason = "exit_all"]_vars

BestAsk == pricing.orderbook.asks[1][1]
BestBid == pricing.orderbook.bids[1][1]

\* C8 (as claimed): the computed buy price is at least the target price and
\* the computed sell price is at most the target price, for every target and
\* order book.
C8_PriceDirectionClaim ==
    pricing.called = "price" =>
        /\ pricing.buy_price # None => pricing.buy_price >= pricing.target_price
        /\ pricing.sell_price # None =>
              pricing.sell_price <= pricing.target_price

\* C8 (amended): the computed buy price is at least the target price unless
\* the best ask is at or below the target, and then it is the best ask; the
\* computed sell price is at most the target price unless the best bid is at
\* or above the target, and then it is the best bid.
C8_PriceDirectionAmended ==
    pricing.called = "price" =>
        /\ pricing.buy_price # None =>
              IF /\ pricing.orderbook.asks # <<>>
                 /\ BestAsk <= pricing.target_price
              THEN pricing.buy_price = BestAsk
              ELSE pricing.buy_price >= pricing.target_price
        /\ pricing.sell_price # None =>
              IF /\ pricing.orderbook.bids # <<>>
                 /\ BestBid >= pricing.target_price
              THEN pricing.sell_price = BestBid
              ELSE pricing.sell_price <= pricing.target_price

\* both prices computed, in the one case on the far side of the target and
\* in the other a tick beyond it
C8_Witness ==
    /\ pricing.called = "price"
    /\ pricing.buy_price # None /\ pricing.sell_price # None
    /\ pricing.buy_price < pricing.target_price
    /\ pricing.sell_price = pricing.target_price
                              - tick_size(pricing.market.precision.price)

\* the step of a precision, as a float: 10^-digits, or the step itself
StepOf(precision) ==
    IF precision.kind = "digits"
    THEN Fl(FloatOne, 10 ^ precision.value)
    ELSE float(precision)

\* the float of k steps
Steps(k, precision) ==
    IF precision.kind = "digits"
    THEN Fl(k * FloatOne, 10 ^ precision.value)
    ELSE Fl(k * float(precision), 1)

\* C9 (as claimed): for every amount >= 0 and every precision the adjusted
\* size is at most the amount, is a whole number of steps, and is less than
\* one step below the amount: sizes are rounded down, never up.
C9_RoundedDownClaim ==
    sizing.called = "adjust" /\ sizing.adjusted # None =>
        /\ sizing.adjusted <= sizing.amount
        /\ \E k \in 0..(MaxAmount * 100) :
              sizing.adjusted = Steps(k, sizing.precision)
        /\ sizing.amount - sizing.adjusted < StepOf(sizing.precision)

\* what reading a journal back returns
ReadBack(file) == IF file[1] = "absent" THEN <<>> ELSE json_load(file[2])

\* C10: reading the entry (the exit) journal back returns exactly the records
\* appended to it, in the order they were appended, and a fill written to
\* one journal leaves the other journal's file as it was.
C10_JournalReadBack ==
    /\ [](/\ ReadBack(entry_log_file) = journal.entry
          /\ ReadBack(exit_log_file) = journal.exit)
    /\ [][/\ journal'.entry # journal.entry => exit_log_file' = exit_log_file
          /\ journal'.exit # journal.exit => entry_log_file' = entry_log_file]_vars

\* two records in the entry journal, an iceberg entry among them, then an
\* exit record annotated from the latest entry, each journal read back
C10_Witness ==
    /\ Len(journal.entry) = 2
    /\ \E i \in 1..2 : journal.entry[i].is_iceberg
    /\ journal.entry[1] # journal.entry[2]
    /\ Len(journal.exit) = 1
    /\ "entry_order_id" \in DOMAIN journal.exit[1]
    /\ Len(ReadBack(entry_log_file)) = 2
    /\ Len(ReadBack(exit_log_file)) = 1

\* the entry an exit record closed: the latest entry of the exit's symbol
\* and exchange journalled before it (0: none)
ClosedEntry(exit_order) ==
    LET before == {i \in 1..Len(journal.entry) :
                      /\ journal.entry[i].symbol = exit_order.symbol
                      /\ journal.entry[i].exchange_id = exit_order.exchange_id
                      /\ journal.entry[i].timestamp < exit_order.timestamp}
    IN  IF before = {} THEN 0
        ELSE CHOOSE i \in before : \A j \in before : j <= i

OpenEntries ==
    LET closed == {ClosedEntry(journal.exit[n]) : n \in 1..Len(journal.exit)}
    IN  SelectSeq([i \in 1..Len(journal.entry) |-> i],
                  LAMBDA i : i \notin closed)

\* C11 (as claimed): no two records of the entry journal share an order_id,
\* and the trading stats report as active exactly the entries that no exit
\* closed.
C11_EntryIdsIdentifyClaim ==
    /\ \A i, j \in 1..Len(journal.entry) :
          i # j => journal.entry[i].order_id # journal.entry[j].order_id
    /\ active_positions(get_entry_orders(entry_log_file, NoFilter, NoFilter),
                        get_exit_orders(exit_log_file, NoFilter, NoFilter))
           = [n \in 1..Len(OpenEntries) |-> journal.entry[OpenEntries[n]]]

\* The latest two get_klines calls asked for the same (symbol, timeframe,
\* limit) within data_refresh_interval of each other, and the earlier one
\* went to the adapter and got a non-empty answer.
RepeatedWithinTTL ==
    /\ last.op = "get_klines"
    /\ last.previous.key = last.call.key
    /\ last.previous.limit = last.call.limit
    /\ last.call.at - last.previous.at < data_refresh_interval
    /\ last.previous.fetches > 0
    /\ last.previous.result # NoData

\* C12 (as claimed): two consecutive get_klines calls with the same (symbol,
\* timeframe, limit) within data_refresh_interval return identical data and
\* cause exactly one fetch_ohlcv call in total, for every non-empty adapter
\* result, also one with fewer bars than limit.
C12_CachedWithinTTLClaim ==
    RepeatedWithinTTL =>
        /\ last.call.result = last.previous.result
        /\ last.previous.fetches + last.call.fetches = 1

(***************************************************************************)
(* Properties of the order handlers                                        *)
(***************************************************************************)
OrderOps ==
    {"execute_entry", "execute_exit", "set_stop_loss",
     "set_conditional_order"}

OrderCreating(call) ==
    call.method \in {"create_limit_buy_order", "create_limit_sell_order",
                     "create_market_buy_order", "create_market_sell_order",
                     "create_stop_loss_order"}

NoOrderCreated == \A i \in 1..Len(last.calls) : ~OrderCreating(last.calls[i])

Synthetic(order_id) ==
    order_id[1] \in {"dry_run", "dry_run_sl", "dry_run_cond"}

\* the price the latest entry or exit computed from the book
ComputedPrice ==
    IF last.op = "execute_entry"
    THEN calculate_buy_price(last.price, OrderBook, OrderMarket)
    ELSE calculate_sell_price(last.price, OrderBook, OrderMarket)

\* the latest entry or exit is the last record of its journal file
Journalled ==
    LET logs == existing_logs(IF last.op = "execute_entry"
                              THEN entry_log_file ELSE exit_log_file)
    IN  /\ logs # <<>>
        /\ logs[Len(logs)].timestamp = last.result.timestamp
        /\ logs[Len(logs)].size = last.result.size
        /\ logs[Len(logs)].avg_price = last.result.avg_price

Remaining == (last.fill.halves * adjusted(last.size)) \div 2

MarketSells ==
    {i \in 1..Len(last.calls) :
        last.calls[i].method = "create_market_sell_order"}

\* C14: in execute_exit outside dry-run, when the limit sell is not
\* completely filled at the end of the fill wait, the order is cancelled and
\* then the remainder is sold at market: the limit sell is for the whole
\* adjusted size, the cancel follows it, a market sell comes only after the
\* cancel and for exactly the remaining amount, and a result with success
\* means the cancel went through and any remainder was sent to market.
C14_CancelThenMarketSell ==
    (~config.dry_run /\ last.op = "execute_exit" /\ ~last.fill.filled) =>
        /\ Len(last.calls) >= 2
        /\ last.calls[1].method = "create_limit_sell_order"
        /\ last.calls[1].amount = adjusted(last.size)
        /\ last.calls[2].method = "cancel_order"
        /\ MarketSells \subseteq {3}
        /\ \A i \in MarketSells : last.calls[i].amount = Remaining
        /\ (last.fill.cancel /\ Remaining > 0) => MarketSells = {3}
        /\ last.result.success =>
               /\ last.fill.cancel
               /\ last.result.size = adjusted(last.size)
               /\ Remaining > 0 => MarketSells = {3}

\* a limit sell left half unfilled, cancelled, the rest sold at market
C14_Witness ==
    /\ ~config.dry_run
    /\ last.op = "execute_exit"
    /\ ~last.fill.filled
    /\ last.result.success
    /\ MarketSells = {3}
    /\ 0 < Remaining
    /\ Remaining < adjusted(last.size)

\* min(5, ceil(size / iceberg_threshold)) for the latest entry
Batches ==
    LET quotient == last.size \div config.iceberg_threshold
        ceil == IF quotient * config.iceberg_threshold = last.size
                THEN quotient ELSE quotient + 1
    IN  IF ceil < 5 THEN ceil ELSE 5

IcebergEntry ==
    last.op = "execute_entry" /\ last.size > config.iceberg_threshold

AllBatchesFilled ==
    /\ IcebergEntry
    /\ "orders" \in DOMAIN last.result
    /\ Len(last.result.orders) = Batches

\* the state part of C15
IcebergBatches ==
    IcebergEntry =>
        /\ "orders" \in DOMAIN last.result =>
               /\ Len(last.result.orders) <= Batches
               /\ \A k \in 1..Len(last.result.orders) :
                      /\ last.result.orders[k].stage
                             = <<"first_stage", "iceberg", k>>
                      /\ last.result.orders[k].size
                             = adjusted(last.size \div Batches)
                      /\ k > 1 => last.result.orders[k - 1].timestamp
                                      < last.result.orders[k].timestamp
        /\ AllBatchesFilled =>
               LET logs == existing_logs(entry_log_file)
               IN  /\ last.result.success
                   /\ logs # <<>>
                   /\ logs[Len(logs)].is_iceberg
                   /\ logs[Len(logs)].timestamp = last.result.timestamp
                   /\ Len(logs[Len(logs)].sub_orders) = Batches
                   /\ \A k \in 1..Batches :
                          logs[Len(logs)].sub_orders[k].stage
                              = <<"first_stage", "iceberg", k>>
        /\ last.size = 25 * SizeUnit => Batches = 3

\* the step part of C15: an iceberg entry whose batches all fill adds one
\* record to the entry journal
OneIcebergRecord ==
    AllBatchesFilled' =>
        Len(existing_logs(entry_log_file'))
            = Len(existing_logs(entry_log_file)) + 1

\* C15: execute_entry with size > iceberg_threshold splits the order into
\* min(5, ceil(size / iceberg_threshold)) equal batches, executes them in
\* index order as single entries with the stage suffix _iceberg_k, and when
\* all batches fill appends exactly one entry journal record whose
\* sub_orders has one element per batch (25 over 10 gives 3).
C15_IcebergBatches == []IcebergBatches /\ [][OneIcebergRecord]_vars

\* the entry of size 25 with threshold 10, journalled with 3 sub_orders
C15_Witness ==
    /\ AllBatchesFilled
    /\ last.size = 25 * SizeUnit
    /\ config.iceberg_threshold = 10 * SizeUnit
    /\ Len(existing_logs(entry_log_file)[
               Len(existing_logs(entry_log_file))].sub_orders) = 3

(***************************************************************************)
(* Properties of the monitor on the ladder positions                       *)
(***************************************************************************)
\* what the pass saw of symbol s: the profit in 1/100 percent
SeenProfit(s) == profit_pct(last'.seen[s].price, positions[s])

Untouched(position) ==
    /\ ~position.take_profit_1
    /\ ~position.take_profit_2
    /\ ~position.take_profit_3

\* the pass fired exactly the take-profit `stage` on s, for `tenths` of the
\* position's size
Fired(s, stage, tenths) ==
    /\ Len(TakeProfitExits(s)) = 1
    /\ TakeProfitExits(s)[1].stage = stage
    /\ TakeProfitExits(s)[1].size = SizeTimes(positions[s].position_size,
                                              tenths)

\* a position entered at 100 with target 120, seen at a price
Scenario(s) ==
    /\ last'.seen[s].price # None
    /\ positions[s].entry_price = PriceUnit
    /\ target_pct(positions[s]) = 2000

SoldInPass(s) ==
    IF TakeProfitExits(s) # <<>> /\ TakeProfitExits(s)[1].success
    THEN TakeProfitExits(s)[1].size
    ELSE 0

\* C17: in a monitor pass, every position older than four hours whose
\* profit_pct is below 1 is fully exited: the pass ends with an exit order
\* for the position's entire remaining size and the position leaves the
\* table.
C17_TimeStopExits ==
    [][last'.op = "monitor" =>
          \A s \in DOMAIN positions :
              (/\ last'.seen[s].price # None
               /\ clock - positions[s].entry_time > 0
               /\ SeenProfit(s) < 100) =>
                  LET exits == last'.seen[s].exits
                  IN  /\ s \notin DOMAIN positions'
                      /\ exits # <<>>
                      /\ exits[Len(exits)].reason = "exit_all"
                      /\ exits[Len(exits)].size
                             = positions[s].position_size - SoldInPass(s)]_vars

\* entered at 100, seen at 100.5 after more than four hours, and exited
C17_Witness ==
    /\ last.op = "monitor"
    /\ clock > 0
    /\ \E s \in DOMAIN last.seen :
           /\ last.seen[s].price = PriceUnit + PriceUnit \div 200
           /\ Len(last.seen[s].exits) = 1
           /\ last.seen[s].exits[1].reason = "exit_all"
           /\ last.seen[s].exits[1].size > 0
           /\ s \notin DOMAIN positions

\* the pass handled s as monitor_position handles it alone, for some answers
\* of the executor
HandledAlone(s) ==
    \E tp_result, exit_result \in BOOLEAN :
        LET r == monitor_position(exchange, s, positions[s],
                                  last'.seen[s].price, tp_result,
                                  exit_result, clock)
        IN  /\ last'.seen[s].exits = r.exits
            /\ last'.seen[s].stops = r.stops
            /\ s \in DOMAIN positions' <=> r.open
            /\ r.open => positions'[s] = r.position

\* C20: in monitor_positions an error while handling one symbol (its price
\* unavailable, an exit order failing) stays with that symbol: every
\* position of the table is looked at in the pass, and each one whose price
\* is known is processed as if it were alone.
C20_ErrorsContained ==
    [][last'.op = "monitor" =>
          \A s \in DOMAIN positions :
              /\ s \in DOMAIN last'.seen
              /\ last'.seen[s].price # None => HandledAlone(s)
              /\ last'.seen[s].price = None =>
                     /\ s \in DOMAIN positions'
                     /\ positions'[s] = positions[s]]_vars

\* one symbol had no price while the other was exited in the same pass
C20_Witness ==
    /\ last.op = "monitor"
    /\ \E s, t \in DOMAIN last.seen :
           /\ s # t
           /\ last.seen[s].price = None
           /\ s \in DOMAIN positions
           /\ last.seen[t].price # None
           /\ last.seen[t].exits # <<>>
           /\ t \notin DOMAIN positions

\* C18 (as claimed): after update_blacklist completes within its time
\* budget, the blacklist is exactly the set of symbols of the universe whose
\* 7-day max drawdown is above 25% or whose 30-day volume is below
\* $1,000,000, for a universe of any size.
C18_BlacklistExactClaim ==
    (last.op = "update_blacklist" /\ ~last.timed_out) =>
        blacklist = {s \in symbols : \/ last.max_drawdown[s] > 25
                                     \/ last.volume[s] < 1000000}

(***************************************************************************)
(* Properties of the risk manager's admission test                         *)
(***************************************************************************)
TotalRiskFull ==
    current_risk + config.max_risk_per_trade > config.max_total_risk

SectorFull(signal) ==
    /\ signal.sector \in DOMAIN sector_allocation
    /\ (sector_allocation[signal.sector] + config.max_risk_per_trade) * 10
           > config.max_sector_allocation * config.max_total_risk

WeakInBear(signal) ==
    signal.market_state \in {"bear", "strong_bear"} /\ signal.score < 700

\* the state part of C19
RejectsExactly ==
    last.op = "can_open_position" =>
        /\ ~last.result <=> \/ TotalRiskFull
                           \/ SectorFull(last.signal)
                           \/ WeakInBear(last.signal)
        /\ (/\ last.signal.score = 615
            /\ ~TotalRiskFull
            /\ ~SectorFull(last.signal)) =>
               /\ last.signal.market_state = "bear" => ~last.result
               /\ last.signal.market_state = "bull" => last.result

\* C19: can_open_position returns false exactly when the total risk plus
\* max_risk_per_trade exceeds max_total_risk, or the signal's sector
\* allocation plus max_risk_per_trade exceeds max_sector_allocation *
\* max_total_risk, or the market state is bear or strong_bear and the score
\* is below 70; it changes no risk-manager state; with the caps not reached
\* a signal of score 61.5 is rejected in bear and accepted in bull.
C19_AdmissionExact ==
    /\ []RejectsExactly
    /\ [][last'.op = "can_open_position" =>
             UNCHANGED <<current_risk, sector_allocation, current_positions,
                         blacklist>>]_vars

\* the signal of score 61.5 rejected in a bear market below the caps
C19_Witness ==
    /\ last.op = "can_open_position"
    /\ last.signal.score = 615
    /\ last.signal.market_state = "bear"
    /\ ~TotalRiskFull
    /\ ~SectorFull(last.signal)
    /\ ~last.result

\* C21 (as claimed): update_position(symbol, "close") for a tracked symbol
\* lowers current_risk by exactly max_risk_per_trade, update_position(symbol,
\* "partial_close", size) lowers it by max_risk_per_trade times the closed
\* fraction, and neither raises, also when the last tracked position is
\* closed while a sector allocation is recorded.
C21_CloseReleasesRiskClaim ==
    [][(last'.op = "update_position" /\ last'.action # "open") =>
          /\ ~last'.raised
          /\ last'.action = "close" =>
                 current_risk' = current_risk - config.max_risk_per_trade
          /\ last'.action = "partial_close" =>
                 current_risk' = current_risk
                                   - (config.max_risk_per_trade
                                        * last'.halves) \div 2]_vars

\* the records a reader finds in a journal file: none in a file that is
\* absent or does not parse
Readable(file) == existing_logs(file)

Extends(after, before) ==
    /\ Len(after) >= Len(before)
    /\ SubSeq(after, 1, Len(before)) = before

\* C22 (as claimed): an append to a journal is atomic, also across a crash
\* between opening the file for writing and the end of the dump: afterwards
\* the file holds the previous records, with or without the new one, and no
\* previous record is ever lost.
C22_AppendAtomicClaim ==
    [][/\ Extends(Readable(entry_log_file'), Readable(entry_log_file))
       /\ Extends(Readable(exit_log_file'), Readable(exit_log_file))]_vars

Unparseable(file) == file[1] = "torn"

\* an append to the file went through
Appended(file) == file[1] = "json"

\* the file a journal is re-created as: the array of one record
Recreated(record, keys) == <<"json", json_dump(<<record>>, keys)>>

\* C23: of a journal that does not parse get_entry_orders and
\* get_exit_orders answer the empty list, whatever the filter (their
\* `except Exception` turns the decode error into []), and the next append
\* re-creates the file with exactly the new record.
C23_UnparseableJournal ==
    /\ [](\A symbol \in Symbols \cup {NoFilter},
            exchange_id \in {default_exchange, NoFilter} :
              /\ Unparseable(entry_log_file) =>
                     get_entry_orders(entry_log_file, symbol,
                                      exchange_id) = <<>>
              /\ Unparseable(exit_log_file) =>
                     get_exit_orders(exit_log_file, symbol,
                                     exchange_id) = <<>>)
    /\ [][/\ (Unparseable(entry_log_file) /\ Appended(entry_log_file')) =>
                 entry_log_file'
                   = Recreated(journal'.entry[Len(journal'.entry)],
                               EntryKeys)
          /\ (Unparseable(exit_log_file) /\ Appended(exit_log_file')) =>
                 exit_log_file'
                   = Recreated(journal'.exit[Len(journal'.exit)],
                               ExitKeys)]_vars

\* the second fill found the journal unparseable and re-created it with
\* its record alone
C23_Witness ==
    /\ Len(journal.entry) = 2
    /\ entry_log_file = Recreated(journal.entry[2], EntryKeys)

\* C24: a get_klines call that misses the cache calls fetch_ohlcv at most
\* max_retries = 3 times; when every attempt fails, or the adapter answers
\* nothing, the call returns no data and leaves the cache entry and its
\* timestamp as they were.
C24_RetriesAndNoData ==
    [][clock' = clock =>
          /\ last'.call.fetches <= max_retries
          /\ last'.call.result = NoData =>
                 /\ last'.call.fetches > 0
                 /\ market_data' = market_data
                 /\ last_update' = last_update]_vars

\* every attempt failed while an entry too short for the call was cached
C24_Witness ==
    /\ last.op = "get_klines"
    /\ last.call.fetches = max_retries
    /\ last.call.result = NoData
    /\ last.call.key \in DOMAIN market_data

\* a hit pairs a frame with the timestamp of the call that fetched it
PairedObservation ==
    last.observed # <<>> => last.observed[1] = last.observed[2]

\* C25 (as claimed): every read and write of the cache maps is made while
\* the cache lock is held, so no caller observes a cached entry together
\* with a timestamp from a different fetch.
C25_CacheLockedClaim == last.locked /\ PairedObservation

Reloaded == last.op = "_load_config"

\* C26: once update_strategy_parameter(name, key, value) has written the
\* file, loading the configuration again gives
\* strategies[name]["parameters"][key] = value, for a strategy that was
\* configured and for a new one.
C26_ParameterSurvivesReload ==
    Reloaded =>
        /\ last.strategy_name \in DOMAIN config.strategies
        /\ "parameters" \in DOMAIN config.strategies[last.strategy_name]
        /\ last.parameter_name
             \in DOMAIN config.strategies[last.strategy_name].parameters
        /\ config.strategies[last.strategy_name]
                 .parameters[last.parameter_name] = last.value

\* a new strategy got a str parameter whose text reads as a number, in a
\* YAML file, and the configuration was loaded again
C26_Witness ==
    /\ Reloaded
    /\ config.config_type = "yaml"
    /\ last.strategy_name.text = "ma_cross"
    /\ last.parameter_name.text = "1"
    /\ last.value = [type |-> "str", text |-> "1"]

AsianSession(now) == (now.hour - 8) % 24 \in 3..5
Weekend(now) == now.weekday \in {5, 6}

\* C27 (as claimed): adjust_threshold(base) is base, plus 0.5 in the Asian
\* session, minus 0.3 on Saturday and Sunday: both when both hold, neither
\* when neither holds.
C27_ThresholdAdjustedClaim ==
    last.op = "adjust_threshold" =>
        last.result = last.base_threshold
                        + (IF AsianSession(last.now) THEN 5 ELSE 0)
                        - (IF Weekend(last.now) THEN 3 ELSE 0)

\* the size the successful exit orders of a pass sold of s
RECURSIVE SoldBy(_)
SoldBy(exits) ==
    IF exits = <<>>
    THEN 0
    ELSE (IF exits[1].success THEN exits[1].size ELSE 0) + SoldBy(Tail(exits))

\* C28 (as claimed): a position record leaves the table only when the
\* position is completely sold: at its removal the sizes of the successful
\* exits add up to the size entered.
C28_RemovedWhenSoldClaim ==
    [][last'.op = "monitor" =>
          \A s \in DOMAIN positions \ DOMAIN positions' :
              (positions[s].original_size - positions[s].position_size)
                + SoldBy(last'.seen[s].exits)
                  = positions[s].original_size]_vars

\* C29 (as claimed): when the first-stage entry order fails, current_risk and
\* sector_allocation are as they were before the attempt: a scan that
\* entered no position leaves both unchanged.
C29_FailedEntryKeepsRiskClaim ==
    [][(last'.op = "scan" /\ last'.entered = <<>>) =>
          /\ current_risk' = current_risk
          /\ sector_allocation' = sector_allocation]_vars

\* C30 (as claimed): after a first-stage fill the position is recorded with
\* stop_loss = 0.98 * avg_price and stage 1, the second-stage conditional
\* order is registered and then the initial stop order is placed, so every
\* position a scan put in the table has had its stop order requested,
\* whatever get_previous_high answered.
C30_StopRequestedClaim ==
    [][last'.op = "scan" =>
          \A i \in 1..Len(last'.entered) :
              LET s == last'.entered[i]
              IN  /\ positions'[s].stop_loss
                       = PriceTimes(positions'[s].entry_price, 98)
                  /\ positions'[s].stage = 1
                  /\ \E j \in 1..Len(last'.stops) :
                         /\ last'.stops[j].symbol = s
                         /\ last'.stops[j].stop_price
                              = positions'[s].stop_loss]_vars

\* C31 (as claimed): whenever a monitor pass raises the trailing stop, the
\* new stop_loss is strictly below the price seen in that pass, so over
\* passes at prices above 1.03 * entry_price the stop never rises above the
\* market.
C31_StopBelowPriceClaim ==
    [][last'.op = "monitor" =>
          \A s \in DOMAIN positions :
              \A i \in 1..Len(last'.seen[s].stops) :
                  last'.seen[s].stops[i].stop_price
                      < last'.seen[s].price]_vars

\* the record execute_entry of the engine stores for the entry the executor
\* just answered: it was asked for last.size
RecordedFor(order_result) ==
    new_position([profit_target |-> 5, sector |-> NoSector], last.size,
                 order_result, 0)

\* C32 (as claimed): the position_size recorded for a new position is the
\* size the order executor reports as filled, also after the rounding of
\* the amount and after an iceberg entry of which only some batches filled.
C32_RecordedSizeIsFilledClaim ==
    (last.op = "execute_entry" /\ last.result.success) =>
        RecordedFor(last.result).position_size = last.result.size

\* the provider calls of a symbol that the funnel drops at its k-th filter
Funnel == <<"calculate_momentum", "get_volume_ratio", "calculate_rsi",
            "get_current_price">>

\* the first filter the reading fails, 5 when it passes all four
FirstFailure(reading, threshold) ==
    CASE reading.momentum = None \/ reading.momentum < threshold -> 1
      [] reading.volume_ratio = None \/ reading.volume_ratio < 15 -> 2
      [] reading.rsi = None \/ reading.rsi > 75 -> 3
      [] reading.current_price = None -> 4
      [] OTHER -> 5

\* C33: every signal generate_signals returns has momentum at or above the
\* adjusted threshold, volume_ratio >= 1.5, rsi <= 75 and an entry price; a
\* symbol is dropped at the first filter it fails, in the order momentum,
\* volume ratio, rsi, price, and nothing later is asked for it; the list
\* returned is in descending order of score.
C33_FunnelAndOrder ==
    last.op = "generate_signals" =>
        /\ \A i \in 1..Len(last.result) :
               LET s == last.result[i]
               IN  /\ s.momentum # None
                   /\ s.momentum >= last.adjusted_threshold
                   /\ s.volume_ratio # None /\ s.volume_ratio >= 15
                   /\ s.rsi # None /\ s.rsi <= 75
                   /\ s.entry_price # None
        /\ \A n \in 1..Len(last.symbols) :
               LET k == FirstFailure(ticker[last.symbols[n]],
                                     last.adjusted_threshold)
               IN  IF k <= 4
                   THEN /\ last.asked[n] = SubSeq(Funnel, 1, k)
                        /\ \A i \in 1..Len(last.result) :
                               last.result[i].symbol # last.symbols[n]
                   ELSE \E i \in 1..Len(last.result) :
                            last.result[i].symbol = last.symbols[n]
        /\ \A i, j \in 1..Len(last.result) :
               i < j => last.result[i].score >= last.result[j].score

\* two signals came back, the second symbol of the list first; the lower one
\* sits exactly on the momentum threshold and on an rsi of 75
C33_Witness ==
    /\ last.op = "generate_signals"
    /\ Len(last.result) = 2
    /\ last.result[1].symbol = last.symbols[2]
    /\ last.result[1].score > last.result[2].score
    /\ last.result[2].rsi = 75
    /\ last.result[2].momentum = last.adjusted_threshold

\* C34: one run of scan_market starts at most max_new_positions entries; it
\* starts none, and generates no signals, when check_market_risk finds the
\* ATR of BTC above 7%; when the ATR is unavailable or the check raises, the
\* scan goes on to generate signals.
C34_ScanBounded ==
    [][last'.op = "scan" =>
          /\ Len(last'.entered) <= config.max_new_positions
          /\ (last'.btc_atr \notin {None, Raises} /\ last'.btc_atr > 7) =>
                 /\ ~last'.generated
                 /\ last'.entered = <<>>
                 /\ positions' = positions
          /\ last'.btc_atr \in {None, Raises} => last'.generated]_vars

\* with one new position allowed and no ATR to go by, a scan entered one of
\* the two symbols and left the other
C34_Witness ==
    /\ last.op = "scan"
    /\ last.btc_atr = None
    /\ last.generated
    /\ config.max_new_positions = 1
    /\ Len(last.entered) = 1
    /\ DOMAIN positions = {last.entered[1]}

\* C35: for a size above iceberg_threshold, every sub-order of the iceberg
\* entry has a size of at most iceberg_threshold, and the total filled size
\* reported is at most the size requested.
C35_SubOrdersWithinThresholdClaim ==
    (/\ last.op = "execute_entry"
     /\ last.size > config.iceberg_threshold
     /\ last.result.success) =>
        /\ \A i \in 1..Len(last.result.orders) :
               last.result.orders[i].size <= config.iceberg_threshold
        /\ last.result.size <= last.size

\* an entry of six thresholds went out as five sub-orders, each above the
\* threshold
C35_OversizedSubOrder ==
    /\ last.op = "execute_entry"
    /\ last.size = 6 * config.iceberg_threshold
    /\ last.result.success
    /\ Len(last.result.orders) = MaxBatches
    /\ \A i \in 1..Len(last.result.orders) :
           last.result.orders[i].size > config.iceberg_threshold

\* what get_trading_history hands to _calculate_trading_stats
ActiveNow ==
    active_positions(get_entry_orders(entry_log_file, NoFilter, NoFilter),
                     get_exit_orders(exit_log_file, NoFilter, NoFilter))

\* the size sold of a symbol, by the exits filled after the time `since`
RECURSIVE SoldSince(_, _, _)
SoldSince(exits, symbol, since) ==
    IF exits = <<>>
    THEN 0
    ELSE (IF Head(exits).symbol = symbol /\ Head(exits).timestamp > since
          THEN Head(exits).size
          ELSE 0) + SoldSince(Tail(exits), symbol, since)

\* C36: an entry stays in the active_positions of the trading stats until
\* its whole size has been sold: as long as the exits of its symbol that
\* came after it add up to less than its size, as after a take-profit of
\* 30%, the entry is in the active set.
C36_ActiveUntilSoldClaim ==
    \A i \in 1..Len(journal.entry) :
        LET entry == journal.entry[i]
        IN  (/\ "order_id" \in DOMAIN entry
             /\ SoldSince(journal.exit, entry.symbol, entry.timestamp)
                    < entry.size) =>
                \E n \in 1..Len(ActiveNow) :
                    /\ ActiveNow[n].order_id = entry.order_id
                    /\ ActiveNow[n].timestamp = entry.timestamp

\* C37: with dry_run set, update_stop_loss makes no call on the exchange
\* that changes an order: it cancels none and creates none.
C37_DryRunUpdateTouchesNothingClaim ==
    (last.op = "update_stop_loss" /\ config.dry_run) =>
        \A i \in 1..Len(last.calls) :
            last.calls[i].method \notin {"cancel_order",
                                         "create_stop_loss_order"}

\* C38: update_strategy_parameter changes only the parameter it names: every
\* other key of the configuration document reads, from the file it saved,
\* as it read from the file before the update.
C38_OtherKeysKeptClaim ==
    [][last'.op = "update_strategy_parameter" =>
          \A k \in DOMAIN config.members :
              /\ k \in DOMAIN config'.members
              /\ load_scalar(config'.members[k])
                     = load_scalar(config.members[k])]_vars

====
